---- MODULE Spec2Model ----
(***************************************************************************)
(* Model of api_fetchers.py: the LeetCode acquisition cascade              *)
(* (fetch_leetcode_live with _normalize_leetcode_json and                  *)
(* _extract_stats_from_normalized), the process-wide TTLCache, the        *)
(* request path get_cached_or_fetch, the rate limiter check_rate_limit     *)
(* and the endpoints that put them together.                               *)
(*                                                                         *)
(* Python values are tagged records, one payload field per kind, so that   *)
(* values of different kinds can be compared:                              *)
(*   None  [t |-> "null"]            bool  [t |-> "bool", b |-> TRUE]      *)
(*   int   [t |-> "int", i |-> 3]    str   [t |-> "str",  s |-> "All"]     *)
(*   dict  [t |-> "dict", d |-> f]   list  [t |-> "list", l |-> <<..>>]    *)
(* A dict's payload f is a function from key strings to values.            *)
(***************************************************************************)
EXTENDS Integers, Sequences, FiniteSets, TLC

JNull == [t |-> "null"]
JBool(x) == [t |-> "bool", b |-> x]
JInt(n) == [t |-> "int", i |-> n]
JStr(x) == [t |-> "str", s |-> x]
JList(q) == [t |-> "list", l |-> q]
JDict(f) == [t |-> "dict", d |-> f]
EmptyMap == [k \in {} |-> JNull]
EmptyDict == JDict(EmptyMap)
Raised == [t |-> "raise"]

IsDict(v) == v.t = "dict"
IsStr(v) == v.t = "str"
IsRaised(v) == v.t = "raise"

\* Python truth value of an object
Truthy(v) ==
  CASE v.t = "null" -> FALSE
    [] v.t = "bool" -> v.b
    [] v.t = "int" -> v.i # 0
    [] v.t = "str" -> v.s # ""
    [] v.t = "list" -> v.l # <<>>
    [] v.t = "dict" -> DOMAIN v.d # {}
    [] OTHER -> FALSE

\* a or b
PyOr(a, b) == IF Truthy(a) THEN a ELSE b

\* k in v, for a dict v
Has(v, k) == k \in DOMAIN v.d

\* v.get(k): AttributeError on anything that is not a dict
Get(v, k) ==
  IF ~IsDict(v) THEN Raised
  ELSE IF k \in DOMAIN v.d THEN v.d[k] ELSE JNull

\* v.get(k, dflt)
GetOr(v, k, dflt) ==
  IF ~IsDict(v) THEN Raised
  ELSE IF k \in DOMAIN v.d THEN v.d[k] ELSE dflt

\* d[k] = x on a dict payload
Put(f, k, x) == [kk \in DOMAIN f \cup {k} |-> IF kk = k THEN x ELSE f[kk]]

\* d.update(u) on dict payloads
Update(f, u) == [kk \in DOMAIN f \cup DOMAIN u |-> IF kk \in DOMAIN u THEN u[kk] ELSE f[kk]]

(***************************************************************************)
(* Text.  A str is an atom; Chars gives the spelling of the strings whose  *)
(* characters the code inspects (difficulty labels, counts sent as text,   *)
(* text-encoded calendars).                                                *)
(***************************************************************************)
Chars(x) ==
  CASE x = "" -> <<>>
    [] x = "All" -> <<"A", "l", "l">>
    [] x = "Easy" -> <<"E", "a", "s", "y">>
    [] x = "Medium" -> <<"M", "e", "d", "i", "u", "m">>
    [] x = "Hard" -> <<"H", "a", "r", "d">>
    [] x = "HARD" -> <<"H", "A", "R", "D">>
    [] x = "Other" -> <<"O", "t", "h", "e", "r">>
    [] x = "Really Easy" -> <<"R", "e", "a", "l", "l", "y", " ", "E", "a", "s", "y">>
    [] x = "12" -> <<"1", "2">>
    [] x = "n/a" -> <<"n", "/", "a">>
    [] x = "{}" -> <<"{", "}">>
    [] x = "oops" -> <<"o", "o", "p", "s">>
    [] x = "success" -> <<"s", "u", "c", "c", "e", "s", "s">>
    [] x = "leetcode" -> <<"l", "e", "e", "t", "c", "o", "d", "e">>
    [] x = "LeetCode" -> <<"L", "e", "e", "t", "C", "o", "d", "e">>
    [] x = "codechef" -> <<"c", "o", "d", "e", "c", "h", "e", "f">>
    [] x = "duolingo" -> <<"d", "u", "o", "l", "i", "n", "g", "o">>
    [] x = "codeforces" -> <<"c", "o", "d", "e", "f", "o", "r", "c", "e", "s">>
    [] x = "hackerrank" -> <<"h", "a", "c", "k", "e", "r", "r", "a", "n", "k">>
    [] x = "HACKERRANK" -> <<"H", "A", "C", "K", "E", "R", "R", "A", "N", "K">>
    [] x = "lc" -> <<"l", "c">>
    [] x = "LC" -> <<"L", "C">>
    [] x = "cc" -> <<"c", "c">>
    [] x = "duo" -> <<"d", "u", "o">>
    [] x = "cf" -> <<"c", "f">>
    [] x = "Cf" -> <<"C", "f">>
    [] x = "hr" -> <<"h", "r">>
    [] x = "lcc" -> <<"l", "c", "c">>
    [] x = "gfg" -> <<"g", "f", "g">>
    [] x = "codeforce" -> <<"c", "o", "d", "e", "f", "o", "r", "c", "e">>

UpperLetters == <<"A", "B", "C", "D", "E", "F", "G", "H", "I", "J", "K", "L", "M",
                  "N", "O", "P", "Q", "R", "S", "T", "U", "V", "W", "X", "Y", "Z">>
LowerLetters == <<"a", "b", "c", "d", "e", "f", "g", "h", "i", "j", "k", "l", "m",
                  "n", "o", "p", "q", "r", "s", "t", "u", "v", "w", "x", "y", "z">>

\* str.lower(), character by character
LowerChar(c) ==
  IF \E n \in DOMAIN UpperLetters : UpperLetters[n] = c
  THEN LowerLetters[CHOOSE n \in DOMAIN UpperLetters : UpperLetters[n] = c]
  ELSE c
Lower(cs) == [n \in DOMAIN cs |-> LowerChar(cs[n])]

\* sub in cs, for strings
Contains(sub, cs) ==
  \E n \in 0..(Len(cs) - Len(sub)) : SubSeq(cs, n + 1, n + Len(sub)) = sub

Digits == <<"0", "1", "2", "3", "4", "5", "6", "7", "8", "9">>
IsDigit(c) == \E n \in DOMAIN Digits : Digits[n] = c
DigitVal(c) == (CHOOSE n \in DOMAIN Digits : Digits[n] = c) - 1
RECURSIVE DigitsVal(_)
DigitsVal(cs) ==
  IF cs = <<>> THEN 0
  ELSE 10 * DigitsVal(SubSeq(cs, 1, Len(cs) - 1)) + DigitVal(cs[Len(cs)])

\* int(x) inside try/except: the value, or 0 where int raises
\* (ValueError on text that is no number, TypeError on None, list, dict)
PyIntOrZero(v) ==
  CASE v.t = "int" -> v.i
    [] v.t = "bool" -> IF v.b THEN 1 ELSE 0
    [] v.t = "str" ->
         LET cs == Chars(v.s)
         IN IF cs # <<>> /\ \A n \in DOMAIN cs : IsDigit(cs[n]) THEN DigitsVal(cs) ELSE 0
    [] OTHER -> 0

\* json.loads(text) for the texts Chars spells: the empty object, a number
\* written in digits, and text that is no JSON at all (ValueError)
JsonLoads(x) ==
  LET cs == Chars(x)
  IN IF cs = <<"{", "}">> THEN EmptyDict
     ELSE IF cs # <<>> /\ \A n \in DOMAIN cs : IsDigit(cs[n]) THEN JInt(DigitsVal(cs))
     ELSE Raised

(***************************************************************************)
(* Canonical model and template                                            *)
(***************************************************************************)
MsgTemplate == "Detailed problem statistics not available from public APIs. Profile data retrieved successfully."
MsgStatsUnavailable == "Profile data retrieved, but detailed problem statistics (totalSolved, easySolved, etc.) are not available from public APIs. LeetCode's GraphQL API requires authentication."
MsgUnableToRetrieve == "Unable to retrieve LeetCode profile data. User may not exist or profile may be private."

leetcode_template(username) ==
  [message |-> "LeetCode report fetched successfully",
   report |->
     ("error" :> JBool(TRUE)
      @@ "errorMessage" :> JStr(MsgTemplate)
      @@ "username" :> JStr(username)
      @@ "totalSolved" :> JInt(0)
      @@ "easySolved" :> JInt(0)
      @@ "mediumSolved" :> JInt(0)
      @@ "hardSolved" :> JInt(0)
      @@ "acceptanceRate" :> JInt(0)
      @@ "ranking" :> JNull
      @@ "reputation" :> JInt(0)
      @@ "contributionPoints" :> JInt(0)
      @@ "streak" :> JInt(0)
      @@ "totalActiveDays" :> JInt(0)
      @@ "submissionCalendar" :> EmptyDict)]

(***************************************************************************)
(* Schema normalizer                                                       *)
(***************************************************************************)
\* out.setdefault("matchedUser", {})[k] = x
SetInUser(out, k, x) ==
  LET user == IF "matchedUser" \in DOMAIN out THEN out["matchedUser"] ELSE EmptyDict
  IN Put(out, "matchedUser", JDict(Put(user.d, k, x)))

\* out.setdefault("matchedUser", {}).setdefault(k, x)
SetDefaultInUser(out, k, x) ==
  LET user == IF "matchedUser" \in DOMAIN out THEN out["matchedUser"] ELSE EmptyDict
  IN Put(out, "matchedUser", IF k \in DOMAIN user.d THEN user ELSE JDict(Put(user.d, k, x)))

LooseKeys == {"acceptanceRate", "streak", "activeDays", "submissionCalendar"}

\* mu: j["data"]'s matchedUser or user, else j's matchedUser, user or profile
DataUser(j) ==
  IF Has(j, "data") /\ IsDict(j.d["data"])
  THEN PyOr(Get(j.d["data"], "matchedUser"), Get(j.d["data"], "user"))
  ELSE JNull
TopUserEnvelopeOnly(j, mu0) == mu0
TopUser(j, mu0) ==
  IF ~Truthy(mu0)
  THEN PyOr(PyOr(Get(j, "matchedUser"), Get(j, "user")), Get(j, "profile"))
  ELSE mu0
NormUser(mu) == IF Truthy(mu) /\ IsDict(mu) THEN "matchedUser" :> mu ELSE EmptyMap

\* statistics sub-records found at top level
NormStats(j, out, k) == IF Has(j, k) THEN SetInUser(out, k, Get(j, k)) ELSE out

\* ucr: j["data"]'s userContestRanking, else j's, else j's history
DataContest(j) ==
  IF Has(j, "data") /\ IsDict(j.d["data"]) THEN Get(j.d["data"], "userContestRanking") ELSE JNull
TopContest(j, ucr0) ==
  IF ~Truthy(ucr0)
  THEN PyOr(Get(j, "userContestRanking"), Get(j, "userContestRankingHistory"))
  ELSE ucr0
NormContestAlways(out, ucr) == Put(out, "userContestRanking", ucr)
NormContest(out, ucr) == IF Truthy(ucr) THEN Put(out, "userContestRanking", ucr) ELSE out

NormCalendar(j, out) ==
  IF Has(j, "submissionCalendar")
  THEN SetDefaultInUser(out, "submissionCalendar", Get(j, "submissionCalendar"))
  ELSE out

NormLoose(j, out) == Update(out, [k \in LooseKeys \cap DOMAIN j.d |-> j.d[k]])

\* the keys that lead to the object mu inside j
UserAt(j) ==
  IF Truthy(DataUser(j))
  THEN <<"data", IF Truthy(Get(j.d["data"], "matchedUser")) THEN "matchedUser" ELSE "user">>
  ELSE IF Truthy(Get(j, "matchedUser")) THEN <<"matchedUser">>
  ELSE IF Truthy(Get(j, "user")) THEN <<"user">>
  ELSE <<"profile">>

\* j after a call that returned out.  out["matchedUser"] = mu binds the
\* object inside j, no copy of it: what the later statements store into
\* out["matchedUser"] they store into that object of j.
Stored(j, out) ==
  IF ~IsDict(j) \/ NormUser(TopUser(j, DataUser(j))) = EmptyMap THEN j
  ELSE LET at == UserAt(j)
           mu == out.d["matchedUser"]
       IN IF Len(at) = 1 THEN JDict(Put(j.d, at[1], mu))
          ELSE JDict(Put(j.d, "data", JDict(Put(j.d["data"].d, at[2], mu))))

normalize_leetcode_json(j) ==
  IF ~IsDict(j) THEN EmptyDict
  ELSE JDict(NormLoose(j,
         NormCalendar(j,
           NormContest(
             NormStats(j, NormStats(j, NormUser(TopUser(j, DataUser(j))), "submitStatsGlobal"),
                       "submitStats"),
             TopContest(j, DataContest(j))))))

(***************************************************************************)
(* Stat extractor                                                          *)
(***************************************************************************)
\* ssg.get("acSubmissionNum") or []
AcGet(got) == IF IsRaised(got) THEN Raised ELSE PyOr(got, JList(<<>>))
AcOf(ssg) == AcGet(Get(ssg, "acSubmissionNum"))

\* the three lookups of the statistics array, in the order of the code
LocateAc3(mu, ac2) ==
  IF IsRaised(ac2) THEN Raised
  ELSE IF ~Truthy(ac2) THEN AcOf(PyOr(Get(mu, "submitStatsGlobal"), EmptyDict))
  ELSE ac2
LocateAc2(mu, ac1) ==
  IF IsRaised(ac1) THEN Raised
  ELSE IF ~Truthy(ac1) /\ Has(mu, "submitStats")
       THEN LocateAc3(mu, AcOf(PyOr(Get(mu, "submitStats"), EmptyDict)))
       ELSE LocateAc3(mu, ac1)
LocateAc(mu) ==
  LocateAc2(mu, AcOf(PyOr(PyOr(Get(mu, "submitStatsGlobal"), Get(mu, "submitStats")), EmptyDict)))

\* "for row in ac": a list yields its items; a dict yields its keys and a str
\* its characters, none of them a dict, so all are skipped; a number is not
\* iterable (TypeError)
Iterable(ac) == ac.t \in {"list", "dict", "str"}
RowsOf(ac) == IF ac.t = "list" THEN ac.l ELSE <<>>

NoCounts == [total |-> 0, easy |-> 0, medium |-> 0, hard |-> 0]

ClassifyEasyFirst(acc, diff, c) ==
  IF Contains(<<"e", "a", "s", "y">>, diff) THEN [acc EXCEPT !.easy = c]
  ELSE IF Contains(<<"a", "l", "l">>, diff) \/ diff = <<>> THEN [acc EXCEPT !.total = c]
  ELSE IF Contains(<<"m", "e", "d", "i", "u", "m">>, diff) THEN [acc EXCEPT !.medium = c]
  ELSE IF Contains(<<"h", "a", "r", "d">>, diff) THEN [acc EXCEPT !.hard = c]
  ELSE acc

ClassifyElseTotal(acc, diff, c) ==
  IF Contains(<<"e", "a", "s", "y">>, diff) /\ ~Contains(<<"a", "l", "l">>, diff) THEN [acc EXCEPT !.easy = c]
  ELSE IF Contains(<<"m", "e", "d", "i", "u", "m">>, diff) /\ ~Contains(<<"a", "l", "l">>, diff)
       THEN [acc EXCEPT !.medium = c]
  ELSE IF Contains(<<"h", "a", "r", "d">>, diff) /\ ~Contains(<<"a", "l", "l">>, diff)
       THEN [acc EXCEPT !.hard = c]
  ELSE [acc EXCEPT !.total = c]

\* the difficulty test on the lowered label, c the parsed count
Classify(acc, diff, c) ==
  IF Contains(<<"a", "l", "l">>, diff) \/ diff = <<>> THEN [acc EXCEPT !.total = c]
  ELSE IF Contains(<<"e", "a", "s", "y">>, diff) THEN [acc EXCEPT !.easy = c]
  ELSE IF Contains(<<"m", "e", "d", "i", "u", "m">>, diff) THEN [acc EXCEPT !.medium = c]
  ELSE IF Contains(<<"h", "a", "r", "d">>, diff) THEN [acc EXCEPT !.hard = c]
  ELSE acc

\* (row.get("difficulty") or "").lower(), then int(count or submissions or 0)
CountLabelled(acc, row, label) ==
  IF ~IsStr(label) THEN Raised
  ELSE Classify(acc, Lower(Chars(label.s)),
                PyIntOrZero(PyOr(PyOr(Get(row, "count"), Get(row, "submissions")), JInt(0))))

\* one pass of the loop body on the counts so far
CountRow(acc, row) ==
  IF ~IsDict(row) THEN acc
  ELSE CountLabelled(acc, row, PyOr(Get(row, "difficulty"), JStr("")))

RECURSIVE CountRows(_, _)
CountRows(acc, rows) ==
  IF acc = Raised \/ rows = <<>> THEN acc
  ELSE CountRows(CountRow(acc, Head(rows)), Tail(rows))

CountsOf(ac) ==
  IF IsRaised(ac) \/ ~Iterable(ac) THEN Raised ELSE CountRows(NoCounts, RowsOf(ac))

\* the activity calendar: a dict as it is, text decoded, anything else {}
Decoded(dec) == IF IsRaised(dec) THEN EmptyDict ELSE dec
CalendarOf(cal_data) ==
  IF ~Truthy(cal_data) THEN EmptyDict
  ELSE IF IsStr(cal_data) THEN Decoded(JsonLoads(cal_data.s))
  ELSE IF IsDict(cal_data) THEN cal_data
  ELSE EmptyDict

\* streak and active days: the userCalendar's value, else the loose fields
FromCalendar(user_cal, k) == IF Truthy(user_cal) THEN PyOr(Get(user_cal, k), JInt(0)) ELSE JInt(0)
OrLoose(nj, mu, v, k) == IF ~Truthy(v) THEN PyOr(PyOr(Get(nj, k), Get(mu, k)), JInt(0)) ELSE v

HasStats(counts) == counts.total > 0 \/ counts.easy > 0 \/ counts.medium > 0 \/ counts.hard > 0

ErrorMsg(counts, submission_cal, prof) ==
  IF HasStats(counts) THEN JNull
  ELSE IF Truthy(submission_cal) \/ Truthy(Get(prof, "ranking")) THEN JStr(MsgStatsUnavailable)
  ELSE JStr(MsgUnableToRetrieve)

\* tpl["report"].update({...})
ExtractReport(nj, username, mu, prof, counts, submission_cal, user_cal) ==
  IF counts = Raised \/ ~IsDict(prof) \/ (Truthy(user_cal) /\ ~IsDict(user_cal)) THEN Raised
  ELSE [message |-> leetcode_template(username).message,
        report |-> Update(leetcode_template(username).report,
           "error" :> JBool(~HasStats(counts))
           @@ "errorMessage" :> ErrorMsg(counts, submission_cal, prof)
           @@ "username" :> JStr(username)
           @@ "totalSolved" :> JInt(counts.total)
           @@ "easySolved" :> JInt(counts.easy)
           @@ "mediumSolved" :> JInt(counts.medium)
           @@ "hardSolved" :> JInt(counts.hard)
           @@ "acceptanceRate" :> PyOr(PyOr(Get(nj, "acceptanceRate"), Get(mu, "acceptanceRate")), JInt(0))
           @@ "ranking" :> (IF Truthy(prof) THEN Get(prof, "ranking") ELSE JNull)
           @@ "reputation" :> (IF Truthy(prof) THEN GetOr(prof, "reputation", JInt(0)) ELSE JInt(0))
           @@ "contributionPoints" :> (IF Truthy(prof) THEN GetOr(prof, "postViewCount", JInt(0)) ELSE JInt(0))
           @@ "streak" :> OrLoose(nj, mu, FromCalendar(user_cal, "streak"), "streak")
           @@ "totalActiveDays" :> OrLoose(nj, mu, FromCalendar(user_cal, "totalActiveDays"), "activeDays")
           @@ "submissionCalendar" :> submission_cal)]

ExtractUser(nj, username, mu) ==
  IF IsRaised(mu) THEN Raised
  ELSE IF ~Truthy(mu) THEN leetcode_template(username)
  ELSE IF ~IsDict(mu) THEN Raised
  ELSE ExtractReport(nj, username, mu,
         PyOr(Get(mu, "profile"), EmptyDict),
         CountsOf(LocateAc(mu)),
         CalendarOf(PyOr(Get(mu, "submissionCalendar"), Get(nj, "submissionCalendar"))),
         PyOr(Get(mu, "userCalendar"), EmptyDict))

extract_stats_from_normalized(nj, username) ==
  ExtractUser(nj, username, IF Truthy(nj) THEN Get(nj, "matchedUser") ELSE JNull)

(***************************************************************************)
(* What the upstreams can answer.  A request either raises (timeout,       *)
(* transport error) or yields a response with a status and a body; a body  *)
(* of Raised is one that response.json() cannot decode.                    *)
(***************************************************************************)
Usernames == {"alice", "bob"}
Rankings == {4821, 77}

ExcResp == [kind |-> "exc"]
Resp(st, body) == [kind |-> "resp", status |-> st, body |-> body]

Row(label, n) == JDict("difficulty" :> JStr(label) @@ "count" :> JInt(n))
StatRows == JList(<<Row("All", 5), Row("Easy", 3), Row("Medium", 2), Row("Hard", 0)>>)

\* a matched-user record with profile metadata and no statistics rows
PartialUser(rank) ==
  JDict("profile" :> JDict("ranking" :> rank @@ "reputation" :> JInt(9) @@ "postViewCount" :> JInt(3))
        @@ "submitStatsGlobal" :> JDict("acSubmissionNum" :> JList(<<>>))
        @@ "submissionCalendar" :> JStr("{}"))

\* a matched-user record with statistics rows
ValidUser(rank) ==
  JDict("profile" :> JDict("ranking" :> rank @@ "reputation" :> JInt(9) @@ "postViewCount" :> JInt(3))
        @@ "submitStatsGlobal" :> JDict("acSubmissionNum" :> StatRows)
        @@ "userCalendar" :> JDict("streak" :> JInt(4) @@ "totalActiveDays" :> JInt(6)))

\* a matched-user record whose statistics rows have no row for "All"
EasyOnlyUser(rank) ==
  JDict("profile" :> JDict("ranking" :> rank @@ "reputation" :> JInt(9) @@ "postViewCount" :> JInt(3))
        @@ "submitStatsGlobal" :> JDict("acSubmissionNum" :> JList(<<Row("Easy", 3)>>)))

UserRecords == {PartialUser(JInt(4821)), PartialUser(JNull), ValidUser(JInt(4821))}

Envelope(user) == JDict("data" :> JDict("matchedUser" :> user))

\* bodies of the GraphQL endpoint
GraphqlBodies ==
  {Envelope(u) : u \in UserRecords \cup {JNull}}
  \cup {JDict("errors" :> JList(<<JStr("oops")>>) @@ "data" :> JDict("matchedUser" :> ValidUser(JInt(77)))),
        JList(<<JInt(1)>>), Raised}
GraphqlResponses == {ExcResp, Resp(403, Raised)} \cup {Resp(200, b) : b \in GraphqlBodies}

\* what the browser page delivers: the merged "data" of intercepted GraphQL
\* responses, the window data object, the in-page GraphQL fetch
InterceptedData ==
  {EmptyDict, JDict("matchedUser" :> JNull)} \cup {JDict("matchedUser" :> u) : u \in UserRecords}
PageDatas ==
  {JNull, JDict("props" :> EmptyDict), JDict("matchedUser" :> PartialUser(JInt(77))),
   JDict("matchedUser" :> ValidUser(JInt(77))), JDict("matchedUser" :> EasyOnlyUser(JInt(77)))}
PageGraphqlResults ==
  {JNull, JList(<<JInt(1)>>), Envelope(JNull), Envelope(PartialUser(JNull)), Envelope(ValidUser(JInt(77)))}

\* bodies of the statistics mirror
StatsBody(status, total, rank, rate) ==
  JDict("status" :> JStr(status) @@ "totalSolved" :> total @@ "easySolved" :> JInt(3)
        @@ "mediumSolved" :> JInt(2) @@ "hardSolved" :> JInt(0) @@ "acceptanceRate" :> rate
        @@ "ranking" :> rank @@ "contributionPoints" :> JInt(1) @@ "reputation" :> JInt(0)
        @@ "submissionCalendar" :> JStr("{}"))
StatsBodies ==
  {StatsBody("success", JInt(5), JInt(4821), JInt(50)),
   StatsBody("success", JInt(0), JInt(4821), JInt(0)),
   StatsBody("oops", JInt(5), JInt(77), JInt(50)),
   StatsBody("success", JInt(5), JInt(77), JStr("n/a")),
   StatsBody("success", JStr("12"), JInt(77), JInt(50)),
   JDict("status" :> JStr("success") @@ "totalSolved" :> JInt(5)),
   JList(<<JInt(1)>>), Raised}
StatsResponses == {ExcResp, Resp(500, Raised)} \cup {Resp(200, b) : b \in StatsBodies}

\* bodies of the mirrors, after the body was decoded (Raised: no JSON found)
MirrorBodies ==
  {Envelope(PartialUser(JInt(77))),
        JDict("matchedUser" :> PartialUser(JNull)),
        Envelope(ValidUser(JInt(4821))),
        Envelope(EasyOnlyUser(JInt(4821))),
        JDict("status" :> JStr("success") @@ "totalSolved" :> JInt(5) @@ "ranking" :> JInt(77)
              @@ "submissionCalendar" :> JDict("12" :> JInt(1))),
        JDict("matchedUser" :> JDict("profile" :> JStr("oops"))),
        JInt(7), EmptyDict, Raised}
MirrorResponses == {ExcResp, Resp(404, Raised), Resp(500, Raised)} \cup {Resp(200, b) : b \in MirrorBodies}

\* _scrape_leetcode_html always hands back its stats dict, on this key set,
\* whatever the markup; the markup decides the numbers
ScrapeStats(username, total, easy, rank) ==
  "username" :> JStr(username)
  @@ "totalSolved" :> JInt(total)
  @@ "easySolved" :> JInt(easy)
  @@ "mediumSolved" :> JInt(0)
  @@ "hardSolved" :> JInt(0)
  @@ "acceptanceRate" :> JInt(0)
  @@ "ranking" :> rank
  @@ "reputation" :> JInt(0)
  @@ "contributionPoints" :> JInt(0)
  @@ "streak" :> JInt(0)
  @@ "totalActiveDays" :> JInt(0)
  @@ "submissionCalendar" :> EmptyDict
ScrapeResults(username) ==
  {ScrapeStats(username, 0, 0, JNull), ScrapeStats(username, 0, 3, JInt(77)),
   ScrapeStats(username, 5, 3, JInt(4821)), ScrapeStats(username, 5, 0, JNull)}

(***************************************************************************)
(* Strategy cascade: fetch_leetcode_live                                   *)
(***************************************************************************)
VARIABLES
  username,       \* the argument
  playwright,     \* PLAYWRIGHT_AVAILABLE, fixed when the module is imported
  pc,             \* where the call stands: "s1" .. "s6", "final", "done", "raised"
  step,           \* the step inside the browser strategy, the query or the mirror in turn
  tpl,            \* the local template
  mirror_result,  \* the partial result kept from the mirrors, NoResult for None
  ret,            \* the value returned, NoResult before the return
  attempts,       \* history: the acquisition attempts made so far, in order
  cands,          \* history: the candidates the strategies produced
  held            \* the resources the call has opened and not released

cascadeVars == <<username, playwright, pc, step, tpl, mirror_result, ret, attempts, cands, held>>

VARIABLES
  now,            \* time.time(), in seconds
  ticks,          \* how many times the clock has advanced
  calls,          \* how many calls the threads have begun
  _data,          \* cache._data: key -> [val, exp]
  _lock,          \* cache._lock: the thread holding it, 0 when free
  th,             \* per request thread: its position and its locals
  lastSet,        \* history: per key, the entry the last completed set wrote, JNull if none
                  \* or if a clear has completed since
  lastFetch,      \* history: per key, the entry written for the last fetched result
  seqRun          \* history: only requests so far, each begun after the one before returned

cacheVars == <<now, ticks, calls, _data, _lock, th, lastSet, lastFetch, seqRun>>

VARIABLES
  arg,            \* the argument of a call of _normalize_leetcode_json, the object j
  given,          \* history: the argument as it was when the call began
  payload,        \* what the call returned, NotCalled before it
  payload2        \* what a second call, on the first one's result, returned

VARIABLES
  extracting,     \* the argument nj of a call of _extract_stats_from_normalized
  ac_rest,        \* the rows of ac the loop has not visited yet
  tally,          \* the locals total, easy, medium, hard; NotCalled before the loop
  visited,        \* history: the row visited last and the tally before it
  extracted       \* what the call returned, NotCalled before it

extractVars == <<extracting, ac_rest, tally, visited, extracted>>

VARIABLES
  _rate_buckets,  \* per client host: the deque of admission timestamps, front first
  admissions,     \* history: per client host, how many requests were admitted at each instant
  req             \* per request thread: where its request stands, and its locals

sideVars == <<arg, given, payload, payload2, extractVars, _rate_buckets, admissions, req>>

NumQueries == 2
NumMirrors == 4
NoResult == [message |-> "", report |-> EmptyMap]

\* a validity test that asks for more than one solved problem
ValidAboveFive(res) == GetOr(JDict(res.report), "totalSolved", JInt(0)).i > 5

\* result["report"].get("totalSolved", 0) > 0
Valid(res) == GetOr(JDict(res.report), "totalSolved", JInt(0)).i > 0

\* normalize, then extract when a matched user is there
Produced(result) == IF result = Raised THEN [o |-> "exc"] ELSE [o |-> "cand", res |-> result]
Extracted(normalized, u) ==
  IF ~Truthy(Get(normalized, "matchedUser")) THEN [o |-> "none"]
  ELSE Produced(extract_stats_from_normalized(normalized, u))
Candidate(raw, u) == Extracted(normalize_leetcode_json(raw), u)

\* Strategy 2, one query
GraphqlOutcome(resp, u) ==
  IF resp.kind = "exc" THEN [o |-> "exc"]
  ELSE IF resp.status # 200 THEN [o |-> "none"]
  ELSE IF resp.body = Raised THEN [o |-> "exc"]
  ELSE LET errs == Get(resp.body, "errors")
       IN IF IsRaised(errs) THEN [o |-> "exc"]
          ELSE IF Truthy(errs) THEN [o |-> "none"]
          ELSE Candidate(resp.body, u)

\* x > 0 on a JSON value: TypeError on text, None, list, dict
GtZero(v) ==
  CASE v.t = "int" -> JBool(v.i > 0)
    [] v.t = "bool" -> v
    [] OTHER -> Raised

\* round(x, 2): the model has no fractions, so a number stays as it is
Round2(v) ==
  CASE v.t = "int" -> v
    [] v.t = "bool" -> JInt(IF v.b THEN 1 ELSE 0)
    [] OTHER -> Raised

\* Strategy 3: the result dict built from the statistics mirror's body
StatsApiResult(j, u) ==
  LET cal0 == GetOr(j, "submissionCalendar", EmptyDict)
      cal == IF IsStr(cal0)
             THEN LET dec == JsonLoads(cal0.s) IN IF IsRaised(dec) THEN EmptyDict ELSE dec
             ELSE cal0
  IN "error" :> JBool(FALSE)
     @@ "username" :> JStr(u)
     @@ "totalSolved" :> GetOr(j, "totalSolved", JInt(0))
     @@ "easySolved" :> GetOr(j, "easySolved", JInt(0))
     @@ "mediumSolved" :> GetOr(j, "mediumSolved", JInt(0))
     @@ "hardSolved" :> GetOr(j, "hardSolved", JInt(0))
     @@ "acceptanceRate" :> Round2(GetOr(j, "acceptanceRate", JInt(0)))
     @@ "ranking" :> Get(j, "ranking")
     @@ "reputation" :> GetOr(j, "reputation", JInt(0))
     @@ "contributionPoints" :> GetOr(j, "contributionPoints", JInt(0))
     @@ "streak" :> JInt(0)
     @@ "totalActiveDays" :> JInt(0)
     @@ "submissionCalendar" :> cal

StatsOutcome(resp, u, t) ==
  IF resp.kind = "exc" THEN [o |-> "exc"]
  ELSE IF resp.status # 200 THEN [o |-> "none"]
  ELSE IF resp.body = Raised \/ ~IsDict(resp.body) THEN [o |-> "exc"]
  ELSE LET j == resp.body
           pos == GtZero(GetOr(j, "totalSolved", JInt(0)))
       IN IF Get(j, "status") # JStr("success") THEN [o |-> "none"]
          ELSE IF IsRaised(pos) THEN [o |-> "exc"]
          ELSE IF ~pos.b THEN [o |-> "none"]
          ELSE IF IsRaised(Round2(GetOr(j, "acceptanceRate", JInt(0)))) THEN [o |-> "exc"]
          ELSE [o |-> "cand", res |-> [t EXCEPT !.report = Update(@, StatsApiResult(j, u))]]

\* Strategies 1 and 4: the scraped stats dict
HtmlOutcome(stats, t) ==
  IF stats["totalSolved"].i > 0
  THEN [o |-> "cand",
        res |-> [t EXCEPT !.report = Put(Update(@, stats), "error", JBool(FALSE))]]
  ELSE [o |-> "none"]

\* Strategy 5, one mirror
MirrorOutcome(resp, u) ==
  IF resp.kind = "exc" THEN [o |-> "exc"]
  ELSE IF resp.status = 404 THEN [o |-> "none"]
  ELSE IF resp.status >= 400 THEN [o |-> "exc"]
  ELSE LET j == IF resp.body = Raised THEN JNull ELSE resp.body
       IN IF ~Truthy(j) THEN [o |-> "none"]
          ELSE IF j.t \in {"int", "bool"} THEN [o |-> "exc"]
          ELSE IF j.t = "str"
               THEN IF Contains(<<"d", "a", "t", "a">>, Chars(j.s)) THEN [o |-> "exc"] ELSE [o |-> "none"]
          ELSE IF j.t = "list" THEN Candidate(j, u)
          ELSE IF Has(j, "data") /\ IsDict(j.d["data"]) /\ Has(j.d["data"], "matchedUser")
               THEN Candidate(j.d["data"], u)
               ELSE Candidate(j, u)

MergeKeys == <<"ranking", "reputation", "contributionPoints">>

\* the merge of the retry's result with the mirror's: a key of the mirror's
\* report is copied where the retry's report has nothing for it
MergeMirror(result, mirror) ==
  [result EXCEPT !.report =
     [k \in DOMAIN @ |->
        IF (\E n \in DOMAIN MergeKeys : MergeKeys[n] = k)
           /\ Truthy(Get(JDict(mirror.report), k)) /\ ~Truthy(@[k])
        THEN mirror.report[k] ELSE @[k]]]

\* the GraphQL call made again after the mirrors
RetryOutcome(resp, u) ==
  IF resp.kind = "exc" THEN [o |-> "exc"]
  ELSE IF resp.status # 200 THEN [o |-> "none"]
  ELSE IF resp.body = Raised THEN [o |-> "exc"]
  ELSE LET data == Get(resp.body, "data")
       IN IF IsRaised(data) THEN [o |-> "exc"]
          ELSE IF ~Truthy(data) THEN [o |-> "none"]
          ELSE IF IsRaised(Get(data, "matchedUser")) THEN [o |-> "exc"]
          ELSE IF ~Truthy(Get(data, "matchedUser")) THEN [o |-> "none"]
          ELSE Candidate(resp.body, u)

\* where the call goes on when a strategy step ends without returning
Onward(site, k) ==
  CASE site = "s1" -> [pc |-> "s2", step |-> 1]
    [] site = "s2" -> IF k < NumQueries THEN [pc |-> "s2", step |-> k + 1] ELSE [pc |-> "s3", step |-> 1]
    [] site = "s3" -> [pc |-> "s4", step |-> 1]
    [] site = "s4" -> [pc |-> "s5", step |-> 1]
    [] site = "s5" -> IF k < NumMirrors THEN [pc |-> "s5", step |-> k + 1] ELSE [pc |-> "s6", step |-> 1]
    [] site = "s6" -> [pc |-> "final", step |-> 1]

\* a mirror attempt whose except clause is missing
HandlerEscapes(site, k) ==
  IF site = "s5" THEN [pc |-> "raised", step |-> k] ELSE Onward(site, k)

\* where an exception raised inside a strategy step is caught: every step
\* sits in a try whose except clause passes or continues
Handler(site, k) == Onward(site, k)

\* what the call holds open when it goes on at loc.  The browser is open
\* while Strategy 1 is under way and gone when it is left: browser.close()
\* on the paths that reach it, the end of "with sync_playwright()" on the
\* others.  Every later strategy makes a requests.Session and none closes
\* it: the local name session keeps the last one made.
Held(loc) == IF loc.pc = "s1" THEN {"browser"} ELSE IF pc = "s1" THEN {} ELSE {"session"}

\* a session still open at the return is garbage from then on: the
\* interpreter may have finalized it at once, or not yet
Goto(loc) == pc' = loc.pc /\ step' = loc.step /\ ret' = ret /\ held' = Held(loc)
Return(res) == pc' = "done" /\ step' = step /\ ret' = res /\ held' \in {{}, held \ {"browser"}}
Attempt(label) == attempts' = Append(attempts, label)
\* a candidate is logged with the strategy that produced it and the number
\* of attempts made by then
Log(by, o) ==
  cands' = IF o.o = "cand"
           THEN cands \cup {[by |-> by, res |-> o.res, at |-> Len(attempts) + 1]}
           ELSE cands

\* PLAYWRIGHT_AVAILABLE is false: Strategy 1 is not in the list
S1Skip ==
  /\ pc = "s1" /\ ~playwright
  /\ Goto(Onward("s1", step))
  /\ UNCHANGED <<cacheVars, sideVars, username, playwright, tpl, mirror_result, attempts, cands>>

\* a browser step that looked at raw data: it returns whatever the
\* extractor makes of a matched user, valid or not
BrowserOutcome(raw, u) ==
  IF raw = Raised THEN [o |-> "exc"]
  ELSE IF Truthy(raw) /\ IsDict(raw) THEN Candidate(raw, u)
  ELSE [o |-> "none"]

BrowserStep(label, raw, nextStep) ==
  \E o \in {BrowserOutcome(raw, username)} :
     /\ Attempt(label)
     /\ Log("browser", o)
     /\ IF o.o = "cand" THEN Return(o.res)
        ELSE IF o.o = "exc" THEN Goto(Handler("s1", step))
        ELSE Goto([pc |-> "s1", step |-> nextStep])
     /\ UNCHANGED <<cacheVars, sideVars, username, playwright, tpl, mirror_result>>

\* page.goto, and the GraphQL responses intercepted while the page loaded
S1Goto ==
  /\ pc = "s1" /\ playwright /\ step = 1
  /\ \E gd \in InterceptedData \cup {Raised} :
       BrowserStep("browser", IF gd = Raised THEN Raised
                              ELSE IF Truthy(gd) THEN JDict("data" :> gd) ELSE JNull, 2)

\* window.__NEXT_DATA__ and the like
S1PageData ==
  /\ pc = "s1" /\ step = 2
  /\ \E pd \in PageDatas \cup {Raised} : BrowserStep("browser_page", pd, 3)

\* the GraphQL query fetched from inside the page
S1PageGraphql ==
  /\ pc = "s1" /\ step = 3
  /\ \E gr \in PageGraphqlResults \cup {Raised} : BrowserStep("browser_graphql", gr, 4)

\* a page scrape that keeps in the template what it found, whatever it found
S1HtmlKeepsPartial ==
  /\ pc = "s1" /\ step = 4
  /\ \E failed \in BOOLEAN, stats \in ScrapeResults(username) :
       \E o \in {IF failed THEN [o |-> "exc"] ELSE HtmlOutcome(stats, tpl)} :
          /\ Attempt("browser_html")
          /\ Log("browser", o)
          /\ IF o.o = "cand" THEN Return(o.res) /\ tpl' = o.res
             ELSE IF o.o = "exc" THEN Goto(Handler("s1", step)) /\ tpl' = tpl
             ELSE Goto(Onward("s1", step)) /\ tpl' = [tpl EXCEPT !.report = Update(@, stats)]
  /\ UNCHANGED <<cacheVars, sideVars, username, playwright, mirror_result>>

\* page.content() scraped
S1Html ==
  /\ pc = "s1" /\ step = 4
  /\ \E failed \in BOOLEAN, stats \in ScrapeResults(username) :
       \E o \in {IF failed THEN [o |-> "exc"] ELSE HtmlOutcome(stats, tpl)} :
          /\ Attempt("browser_html")
          /\ Log("browser", o)
          /\ IF o.o = "cand" THEN Return(o.res) /\ tpl' = o.res
             ELSE IF o.o = "exc" THEN Goto(Handler("s1", step)) /\ tpl' = tpl
             ELSE Goto(Onward("s1", step)) /\ tpl' = tpl
  /\ UNCHANGED <<cacheVars, sideVars, username, playwright, mirror_result>>

\* Strategy 2: one of the GraphQL queries, posted directly
S2Query ==
  /\ pc = "s2"
  /\ \E resp \in GraphqlResponses :
       \E o \in {GraphqlOutcome(resp, username)} :
          /\ Attempt("graphql")
          /\ Log("graphql", o)
          /\ IF o.o = "cand" /\ Valid(o.res) THEN Return(o.res)
             ELSE IF o.o = "exc" THEN Goto(Handler("s2", step))
             ELSE Goto(Onward("s2", step))
  /\ UNCHANGED <<cacheVars, sideVars, username, playwright, tpl, mirror_result>>

\* Strategy 3: the statistics mirror
S3Stats ==
  /\ pc = "s3"
  /\ \E resp \in StatsResponses :
       \E o \in {StatsOutcome(resp, username, tpl)} :
          /\ Attempt("statsapi")
          /\ Log("statsapi", o)
          /\ IF o.o = "cand" THEN Return(o.res) /\ tpl' = o.res
             ELSE IF o.o = "exc" THEN Goto(Handler("s3", step)) /\ tpl' = tpl
             ELSE Goto(Onward("s3", step)) /\ tpl' = tpl
  /\ UNCHANGED <<cacheVars, sideVars, username, playwright, mirror_result>>

\* Strategy 4: the profile page fetched with requests and scraped
S4Html ==
  /\ pc = "s4"
  /\ \E kind \in {"exc", "status", "ok"}, stats \in ScrapeResults(username) :
       \E o \in {IF kind = "exc" THEN [o |-> "exc"]
                 ELSE IF kind = "status" THEN [o |-> "none"]
                 ELSE HtmlOutcome(stats, tpl)} :
          /\ Attempt("html")
          /\ Log("html", o)
          /\ IF o.o = "cand" THEN Return(o.res) /\ tpl' = o.res
             ELSE IF o.o = "exc" THEN Goto(Handler("s4", step)) /\ tpl' = tpl
             ELSE Goto(Onward("s4", step)) /\ tpl' = tpl
  /\ UNCHANGED <<cacheVars, sideVars, username, playwright, mirror_result>>

\* Strategy 5: one of the mirrors
S5Mirror ==
  /\ pc = "s5"
  /\ \E resp \in MirrorResponses :
       \E o \in {MirrorOutcome(resp, username)} :
          /\ Attempt("mirror")
          /\ Log("mirror", o)
          /\ IF o.o = "cand" /\ Valid(o.res) THEN Return(o.res) /\ mirror_result' = mirror_result
             ELSE IF o.o = "cand"
                  THEN /\ Goto(Onward("s5", step))
                       /\ mirror_result' = IF mirror_result = NoResult THEN o.res ELSE mirror_result
             ELSE IF o.o = "exc" THEN Goto(Handler("s5", step)) /\ mirror_result' = mirror_result
             ELSE Goto(Onward("s5", step)) /\ mirror_result' = mirror_result
  /\ UNCHANGED <<cacheVars, sideVars, username, playwright, tpl>>

\* if mirror_result and mirror_result["report"].get("totalSolved", 0) == 0
RetryWanted ==
  mirror_result # NoResult /\ GetOr(JDict(mirror_result.report), "totalSolved", JInt(0)) = JInt(0)

\* the GraphQL call made once more when the mirrors gave partial data
S6Retry ==
  /\ pc = "s6" /\ RetryWanted
  /\ \E resp \in GraphqlResponses :
       \E o \in {RetryOutcome(resp, username)} :
          /\ Attempt("retry")
          /\ Log("retry", o)
          /\ IF o.o = "cand" /\ Valid(o.res) THEN Return(o.res)
             ELSE IF o.o = "cand" THEN Return(MergeMirror(o.res, mirror_result))
             ELSE IF o.o = "exc" THEN Goto(Handler("s6", step))
             ELSE Goto(Onward("s6", step))
  /\ UNCHANGED <<cacheVars, sideVars, username, playwright, tpl, mirror_result>>

\* the end of the list: the mirrors' partial result, or the template
Final ==
  /\ pc = "final" \/ (pc = "s6" /\ ~RetryWanted)
  /\ IF mirror_result # NoResult
     THEN Return(mirror_result) /\ tpl' = tpl
     ELSE LET t == [tpl EXCEPT !.report = Put(@, "error", JBool(TRUE))]
          IN Return(t) /\ tpl' = t
  /\ UNCHANGED <<cacheVars, sideVars, username, playwright, mirror_result, attempts, cands>>

CascadeInit ==
  /\ username \in Usernames
  /\ playwright \in BOOLEAN
  /\ pc = "s1"
  /\ step = 1
  /\ tpl = leetcode_template(username)
  /\ mirror_result = NoResult
  /\ ret = NoResult
  /\ attempts = <<>>
  /\ cands = {}
  /\ held = {}

CascadeNext ==
  \/ S1Skip
  \/ S1Goto
  \/ S1PageData
  \/ S1PageGraphql
  \/ S1Html
  \/ S2Query
  \/ S3Stats
  \/ S4Html
  \/ S5Mirror
  \/ S6Retry
  \/ Final

(***************************************************************************)
(* TTLCache and the request path.  Request threads call the cache          *)
(* directly (get, set with a ttl, clear) or through get_cached_or_fetch.   *)
(* "with self._lock" is an acquire step that waits for the lock, the body   *)
(* one step per statement that reads the clock or the dict, and the        *)
(* release is part of the step that leaves the block.  The clock advances  *)
(* between any two steps.                                                  *)
(***************************************************************************)
CACHE_TTL == 60
MaxTicks == 2
MaxCalls == 3
Threads == {1, 2}
Keys == {"lc:alice"}
TTLs == {1, CACHE_TTL}

\* what a fetcher hands back: a degraded template or a report with statistics
FetchResults ==
  {leetcode_template("alice"),
   extract_stats_from_normalized(normalize_leetcode_json(Envelope(ValidUser(JInt(4821)))), "alice")}

\* the tuple (val, exp)
Entry(val, exp) == [val |-> val, exp |-> exp]

\* del d[k]
Del(f, k) == [kk \in DOMAIN f \ {k} |-> f[kk]]

\* a thread between two calls
Idle ==
  [pc |-> "idle", mode |-> "api", key |-> "", val |-> JNull, ttl |-> 0, rec |-> JNull,
   ret |-> JNull, out |-> JNull, fetched |-> FALSE,
   at |-> 0, left |-> JNull, prev |-> JNull, expect |-> JNull]

CacheInit ==
  /\ now = 0
  /\ ticks = 0
  /\ calls = 0
  /\ _data = EmptyMap
  /\ _lock = 0
  /\ th = [t \in Threads |-> Idle]
  /\ lastSet = [k \in Keys |-> JNull]
  /\ lastFetch = [k \in Keys |-> JNull]
  /\ seqRun = TRUE

\* history: a set of key k (a clear: of every key) completed while u's get was under way
Intervened(u, ks) ==
  IF th[u].pc \in {"get_wait", "get_read", "get_check"} /\ th[u].key \in ks
  THEN [th[u] EXCEPT !.expect = JNull]
  ELSE th[u]

\* cache.get(key), called directly
CallGet(t) ==
  /\ th[t].pc = "idle"
  /\ calls < MaxCalls
  /\ calls' = calls + 1
  /\ \E k \in Keys :
       th' = [th EXCEPT ![t] = [Idle EXCEPT !.pc = "get_wait", !.key = k, !.expect = lastSet[k]]]
  /\ seqRun' = FALSE
  /\ UNCHANGED <<now, ticks, _data, _lock, lastSet, lastFetch, cascadeVars, sideVars>>

\* cache.set(key, val, ttl), called directly
CallSet(t) ==
  /\ th[t].pc = "idle"
  /\ calls < MaxCalls
  /\ calls' = calls + 1
  /\ \E k \in Keys, v \in FetchResults, ttl \in TTLs :
       th' = [th EXCEPT ![t] = [Idle EXCEPT !.pc = "set_wait", !.key = k, !.val = v, !.ttl = ttl]]
  /\ seqRun' = FALSE
  /\ UNCHANGED <<now, ticks, _data, _lock, lastSet, lastFetch, cascadeVars, sideVars>>

\* POST /admin/clear_cache
CallClear(t) ==
  /\ th[t].pc = "idle"
  /\ calls < MaxCalls
  /\ calls' = calls + 1
  /\ th' = [th EXCEPT ![t] = [Idle EXCEPT !.pc = "clear_wait"]]
  /\ seqRun' = FALSE
  /\ UNCHANGED <<now, ticks, _data, _lock, lastSet, lastFetch, cascadeVars, sideVars>>

\* get_cached_or_fetch(key, fn, arg): val = cache.get(key)
Request(t) ==
  /\ th[t].pc = "idle"
  /\ calls < MaxCalls
  /\ calls' = calls + 1
  /\ \E k \in Keys :
       th' = [th EXCEPT ![t] = [Idle EXCEPT !.pc = "get_wait", !.mode = "request", !.key = k,
                                            !.expect = lastSet[k]]]
  /\ seqRun' = (seqRun /\ \A u \in Threads : th[u].pc = "idle")
  /\ UNCHANGED <<now, ticks, _data, _lock, lastSet, lastFetch, cascadeVars, sideVars>>

\* an acquire that does not wait
LockIgnored == TRUE

\* threading.Lock: acquire blocks while another thread holds the lock
LockFree == _lock = 0

\* with self._lock:
Acquire(t) ==
  /\ th[t].pc \in {"get_wait", "set_wait", "clear_wait"}
  /\ LockFree
  /\ _lock' = t
  /\ th' = [th EXCEPT ![t].pc = CASE @ = "get_wait" -> "get_read"
                                  [] @ = "set_wait" -> "set_write"
                                  [] OTHER -> "clear_do"]
  /\ UNCHANGED <<now, ticks, calls, _data, lastSet, lastFetch, seqRun, cascadeVars, sideVars>>

\* rec = self._data.get(key); if not rec: return None
\* (an entry is a 2-tuple, which is never false: only None is)
GetRead(t) ==
  /\ th[t].pc = "get_read"
  /\ \E rec \in {Get(JDict(_data), th[t].key)} :
       IF rec = JNull
       THEN /\ th' = [th EXCEPT ![t].pc = "got", ![t].rec = rec, ![t].ret = JNull,
                                ![t].at = now, ![t].left = rec]
            /\ _lock' = 0
       ELSE /\ th' = [th EXCEPT ![t].pc = "get_check", ![t].rec = rec]
            /\ _lock' = _lock
  /\ UNCHANGED <<now, ticks, calls, _data, lastSet, lastFetch, seqRun, cascadeVars, sideVars>>

\* an expiry test that already fails at the expiry itself
ExpiredAtExpiry(clock, exp) == clock >= exp

\* time.time() > exp
Expired(clock, exp) == clock > exp

\* val, exp = rec; if time.time() > exp: del self._data[key]; return None
\* return val
GetCheck(t) ==
  /\ th[t].pc = "get_check"
  /\ IF Expired(now, th[t].rec.exp)
     THEN /\ _data' = Del(_data, th[t].key)
          /\ th' = [th EXCEPT ![t].pc = "got", ![t].ret = JNull, ![t].at = now,
                              ![t].left = Get(JDict(_data'), th[t].key)]
     ELSE /\ _data' = _data
          /\ th' = [th EXCEPT ![t].pc = "got", ![t].ret = th[t].rec.val, ![t].at = now,
                              ![t].left = Get(JDict(_data'), th[t].key)]
  /\ _lock' = 0
  /\ UNCHANGED <<now, ticks, calls, lastSet, lastFetch, seqRun, cascadeVars, sideVars>>

\* a request path that does not look at what get returned
FetchAlways(val) == TRUE

\* the negation of "val is not None"
FetchWanted(val) == val = JNull

\* get has returned: a direct caller is done; get_cached_or_fetch goes on with
\* if val is not None: return val
Got(t) ==
  /\ th[t].pc = "got"
  /\ th' = [th EXCEPT ![t] =
              IF th[t].mode = "api" THEN Idle
              ELSE IF FetchWanted(th[t].ret)
                   THEN [@ EXCEPT !.pc = "fetch", !.rec = JNull, !.left = JNull, !.expect = JNull]
              ELSE [@ EXCEPT !.pc = "returned", !.out = th[t].ret, !.rec = JNull,
                             !.left = JNull, !.expect = JNull, !.at = 0]]
  /\ UNCHANGED <<now, ticks, calls, _data, _lock, lastSet, lastFetch, seqRun, cascadeVars, sideVars>>

\* data = fn(arg); cache.set(key, data), ttl left to its default
Fetch(t) ==
  /\ th[t].pc = "fetch"
  /\ \E d \in FetchResults :
       th' = [th EXCEPT ![t].pc = "set_wait", ![t].val = d, ![t].ttl = CACHE_TTL,
                        ![t].fetched = TRUE]
  /\ UNCHANGED <<now, ticks, calls, _data, _lock, lastSet, lastFetch, seqRun, cascadeVars, sideVars>>

\* a set that keeps the expiry of the entry it finds when that one is later
KeepLater(prev, val, exp) ==
  IF prev # JNull /\ prev.exp > exp THEN Entry(val, prev.exp) ELSE Entry(val, exp)

\* the entry set stores, prev being the entry it finds
SetEntry(prev, val, exp) == Entry(val, exp)

\* self._data[key] = (val, time.time() + ttl)
SetWrite(t) ==
  /\ th[t].pc = "set_write"
  /\ _data' = Put(_data, th[t].key,
                 SetEntry(Get(JDict(_data), th[t].key), th[t].val, now + th[t].ttl))
  /\ _lock' = 0
  /\ lastSet' = [lastSet EXCEPT ![th[t].key] = Entry(th[t].val, now + th[t].ttl)]
  /\ lastFetch' = IF th[t].mode = "request"
                  THEN [lastFetch EXCEPT ![th[t].key] = Entry(th[t].val, now + th[t].ttl)]
                  ELSE lastFetch
  /\ th' = [u \in Threads |->
              IF u = t
              THEN [th[t] EXCEPT !.pc = "set_done", !.at = now,
                                 !.prev = Get(JDict(_data), th[t].key),
                                 !.left = Get(JDict(_data'), th[t].key)]
              ELSE Intervened(u, {th[t].key})]
  /\ UNCHANGED <<now, ticks, calls, seqRun, cascadeVars, sideVars>>

\* self._data.clear()
ClearDo(t) ==
  /\ th[t].pc = "clear_do"
  /\ _data' = EmptyMap
  /\ _lock' = 0
  /\ lastSet' = [k \in Keys |-> JNull]
  /\ lastFetch' = [k \in Keys |-> JNull]
  /\ th' = [u \in Threads |-> IF u = t THEN Idle ELSE Intervened(u, Keys)]
  /\ UNCHANGED <<now, ticks, calls, seqRun, cascadeVars, sideVars>>

\* set has returned: a direct caller is done; get_cached_or_fetch goes on with
\* return data, and then its caller is done
Leave(t) ==
  /\ th[t].pc \in {"set_done", "returned"}
  /\ th' = [th EXCEPT ![t] =
              IF th[t].pc = "set_done" /\ th[t].mode = "request"
              THEN [@ EXCEPT !.pc = "returned", !.out = th[t].val]
              ELSE Idle]
  /\ UNCHANGED <<now, ticks, calls, _data, _lock, lastSet, lastFetch, seqRun, cascadeVars, sideVars>>

\* time passes
Tick ==
  /\ ticks < MaxTicks
  /\ \E d \in {1, CACHE_TTL} : now' = now + d
  /\ ticks' = ticks + 1
  /\ UNCHANGED <<calls, _data, _lock, th, lastSet, lastFetch, seqRun, cascadeVars, sideVars>>

\* threads that use the cache object directly
CacheNext ==
  \/ \E t \in Threads : CallGet(t)
  \/ \E t \in Threads : CallSet(t)
  \/ \E t \in Threads : CallClear(t)
  \/ \E t \in Threads : Acquire(t)
  \/ \E t \in Threads : GetRead(t)
  \/ \E t \in Threads : GetCheck(t)
  \/ \E t \in Threads : Got(t)
  \/ \E t \in Threads : SetWrite(t)
  \/ \E t \in Threads : ClearDo(t)
  \/ \E t \in Threads : Leave(t)
  \/ Tick

\* threads that serve requests: the source endpoints and POST /admin/clear_cache
GatewayNext ==
  \/ \E t \in Threads : Request(t)
  \/ \E t \in Threads : CallClear(t)
  \/ \E t \in Threads : Acquire(t)
  \/ \E t \in Threads : GetRead(t)
  \/ \E t \in Threads : GetCheck(t)
  \/ \E t \in Threads : Got(t)
  \/ \E t \in Threads : Fetch(t)
  \/ \E t \in Threads : SetWrite(t)
  \/ \E t \in Threads : ClearDo(t)
  \/ \E t \in Threads : Leave(t)
  \/ Tick

(***************************************************************************)
(* Calls of _normalize_leetcode_json on arbitrary decoded JSON             *)
(***************************************************************************)
MaxRawKeys == 3
RawKeys ==
  {"data", "matchedUser", "user", "profile", "submitStatsGlobal", "submitStats",
   "userContestRanking", "userContestRankingHistory", "submissionCalendar", "streak"}
RawValues ==
  {JNull, EmptyDict, JStr("{}"), PartialUser(JNull),
   JDict("matchedUser" :> ValidUser(JInt(77)) @@ "userContestRanking" :> JDict("rating" :> JInt(1500)))}

\* what a mirror body can decode to: any JSON value, a dict with any keys
RawInputs ==
  {JNull, JInt(7), JStr("oops"), JList(<<EmptyDict>>)}
  \cup {JDict(f) : f \in UNION {[S -> RawValues] :
                                 S \in {T \in SUBSET RawKeys : Cardinality(T) <= MaxRawKeys}}}

NotCalled == [t |-> "none"]

NormIdle == arg = JNull /\ given = NotCalled /\ payload = NotCalled /\ payload2 = NotCalled

NormInit == arg \in RawInputs /\ given = NotCalled /\ payload = NotCalled /\ payload2 = NotCalled

\* payload = _normalize_leetcode_json(arg)
CallNormalize ==
  /\ payload = NotCalled
  /\ given' = arg
  /\ payload' = normalize_leetcode_json(arg)
  /\ arg' = Stored(arg, payload')
  /\ UNCHANGED <<payload2, extractVars, _rate_buckets, admissions, req, cascadeVars, cacheVars>>

\* payload2 = _normalize_leetcode_json(payload)
CallRenormalize ==
  /\ payload \notin {NotCalled, Raised}
  /\ payload2 = NotCalled
  /\ payload2' = normalize_leetcode_json(payload)
  /\ payload' = Stored(payload, payload2')
  /\ UNCHANGED <<arg, given, extractVars, _rate_buckets, admissions, req, cascadeVars, cacheVars>>

NormNext == CallNormalize \/ CallRenormalize

(***************************************************************************)
(* Calls of _extract_stats_from_normalized, the loop over the statistics   *)
(* rows one row a step                                                     *)
(***************************************************************************)
MaxRows == 2

\* rows a statistics array can hold: labelled and counted as LeetCode does,
\* in other spellings, without a label, with text for a count, with values
\* of other types, and an item that is no dict
RowValues ==
  {Row("All", 5), Row("Easy", 3), Row("Easy", 4), Row("HARD", 1), Row("Other", 4),
   Row("Really Easy", 2), Row("", 6),
   JDict("difficulty" :> JStr("Medium") @@ "submissions" :> JStr("12")),
   JDict("difficulty" :> JStr("Hard") @@ "count" :> JStr("n/a")),
   JDict("difficulty" :> JStr("Medium") @@ "count" :> JList(<<JInt(2)>>)),
   JDict("count" :> JInt(6)),
   JDict("difficulty" :> JNull @@ "count" :> JInt(7)),
   JDict("difficulty" :> JInt(5) @@ "count" :> JInt(1)),
   JDict("difficulty" :> JStr("Easy") @@ "count" :> JInt(0) @@ "submissions" :> JInt(7)),
   JInt(1)}

RowLists == UNION {[1..n -> RowValues] : n \in 0..MaxRows}

\* a matched-user record around a statistics array
UserWith(rows, rank, cal) ==
  JDict("profile" :> JDict("ranking" :> rank)
        @@ "submitStatsGlobal" :> JDict("acSubmissionNum" :> JList(rows))
        @@ "submissionCalendar" :> cal)

\* payloads: without a matched-user record, and with one, its ranking and
\* its calendar there or not
ExtractInputs ==
  {JNull, EmptyDict, JDict("userContestRanking" :> JDict("rating" :> JInt(1500)))}
  \cup {JDict("matchedUser" :> UserWith(rows, r[1], r[2])) :
          rows \in RowLists,
          r \in {<<JNull, JNull>>, <<JInt(77), JNull>>, <<JNull, JStr("{}")>>,
                 <<JNull, JDict("12" :> JInt(1))>>}}

ExtractIdle ==
  /\ extracting = JNull
  /\ ac_rest = <<>>
  /\ tally = NotCalled
  /\ visited = NotCalled
  /\ extracted = NotCalled

ExtractInit ==
  /\ extracting \in ExtractInputs
  /\ ac_rest = <<>>
  /\ tally = NotCalled
  /\ visited = NotCalled
  /\ extracted = NotCalled

extractFrame == <<arg, given, payload, payload2, _rate_buckets, admissions, req, cascadeVars, cacheVars>>

\* mu = nj.get("matchedUser") if nj else None
MatchedUser(v) == IF Truthy(v) THEN Get(v, "matchedUser") ELSE JNull

\* the call up to the loop: the template for a payload without a user, else
\* the statistics array is located and the four counts start at 0
ExtractBegin ==
  /\ tally = NotCalled
  /\ extracted = NotCalled
  /\ \E mu \in {MatchedUser(extracting)} :
       IF IsRaised(mu) \/ ~Truthy(mu) \/ ~IsDict(mu)
       THEN /\ extracted' = ExtractUser(extracting, username, mu)
            /\ UNCHANGED <<ac_rest, tally>>
       ELSE \E ac \in {LocateAc(mu)} :
              IF IsRaised(ac) \/ ~Iterable(ac)
              THEN extracted' = Raised /\ UNCHANGED <<ac_rest, tally>>
              ELSE extracted' = extracted /\ ac_rest' = RowsOf(ac) /\ tally' = NoCounts
  /\ UNCHANGED <<extracting, visited, extractFrame>>

\* one pass of "for row in ac"; an exception in it ends the call
ExtractRow ==
  /\ tally \notin {NotCalled, Raised}
  /\ extracted = NotCalled
  /\ ac_rest # <<>>
  /\ tally' = CountRow(tally, Head(ac_rest))
  /\ visited' = [row |-> Head(ac_rest), before |-> tally]
  /\ ac_rest' = Tail(ac_rest)
  /\ extracted' = IF tally' = Raised THEN Raised ELSE extracted
  /\ UNCHANGED <<extracting, extractFrame>>

\* after the loop: calendar, streak, message, tpl["report"].update, return
ExtractEnd ==
  /\ tally \notin {NotCalled, Raised}
  /\ extracted = NotCalled
  /\ ac_rest = <<>>
  /\ \E mu \in {MatchedUser(extracting)} :
       extracted' = ExtractReport(extracting, username, mu,
                      PyOr(Get(mu, "profile"), EmptyDict),
                      tally,
                      CalendarOf(PyOr(Get(mu, "submissionCalendar"), Get(extracting, "submissionCalendar"))),
                      PyOr(Get(mu, "userCalendar"), EmptyDict))
  /\ UNCHANGED <<extracting, ac_rest, tally, visited, extractFrame>>

ExtractNext == ExtractBegin \/ ExtractRow \/ ExtractEnd

(***************************************************************************)
(* Rate limiter and endpoints.  A request reads the clock, passes          *)
(* check_rate_limit and then runs get_cached_or_fetch; cache.get and       *)
(* cache.set are one step each here, their bodies being under the cache    *)
(* lock, and the body of "with _rate_lock" is one step for the same reason.*)
(***************************************************************************)
RATE_LIMIT == 30
RATE_PERIOD == 60
MaxArrivals == 4
MaxNameLen == 2
MaxStoreCalls == 2

\* request.client.host
Clients == {"10.0.0.1", "10.0.0.2"}

\* the literal part of each endpoint's key f-string
Sources ==
  {<<"l", "c", ":">>, <<"c", "c", ":">>, <<"d", "u", "o", ":">>, <<"c", "f", ":">>, <<"h", "r", ":">>}

\* the {username} path segment, as its characters
PathNames == UNION {[1..n -> {"c", "f", ":"}] : n \in 1..MaxNameLen}

CacheKeyNameOnly(prefix, user) == user

\* f"lc:{username}" and the like
CacheKey(prefix, user) == prefix \o user

\* what the fetcher of an endpoint can hand back for a username
FetcherResults(prefix, user) ==
  {[fetcher |-> prefix, username |-> user, error |-> e] : e \in BOOLEAN}

ServiceUnavailable == [status |-> 503, detail |-> <<JStr("Rate limit exceeded")>>]

\* HTTPException(status_code=429, detail=f"Rate limit exceeded ({RATE_LIMIT} req / {RATE_PERIOD}s)")
\* the detail as the pieces of the f-string, in order
TooManyRequests ==
  [status |-> 429,
   detail |-> <<JStr("Rate limit exceeded ("), JInt(RATE_LIMIT), JStr(" req / "),
                JInt(RATE_PERIOD), JStr("s)")>>]

\* an answer of the handler
Ok(body) == [status |-> 200, body |-> body]

\* a thread with no request
NoRequest ==
  [pc |-> "idle", ep |-> <<>>, platform |-> "", ip |-> "", user |-> <<>>, now |-> 0, key |-> <<>>,
   data |-> JNull, resp |-> JNull, gets |-> 0, sets |-> 0, fetches |-> 0, found |-> 0]

\* how many times each instant occurs in a sequence of timestamps
Occurrences(dq) ==
  [s \in {dq[i] : i \in DOMAIN dq} |-> Cardinality({i \in DOMAIN dq : dq[i] = s})]

\* the log of a client whose admissions are not logged: the history is
\* kept in the specifications whose properties look at it
NotLogged == [s \in {-1} |-> 0]

\* one more admission at the instant s
WithAdmission(log, s) ==
  IF log = NotLogged THEN log
  ELSE [x \in DOMAIN log \cup {s} |->
          IF x = s THEN (IF s \in DOMAIN log THEN log[s] + 1 ELSE 1) ELSE log[x]]

\* buckets as earlier admissions have left them: n admissions at the instant 0
Buckets(n) == [ip \in Clients |-> [i \in 1..n[ip] |-> 0]]

\* no request under way; the buckets of the clients ips are empty or one short
\* of the limit, the others empty
EdgeInit(ips) ==
  /\ \E n \in [ips -> {0, RATE_LIMIT - 1}] :
       _rate_buckets = Buckets([ip \in Clients |-> IF ip \in ips THEN n[ip] ELSE 0])
  /\ admissions = [ip \in Clients |-> NotLogged]
  /\ req = [t \in Threads |-> NoRequest]

\* the same, the admissions the buckets stand for logged
EdgeInitLogged(ips) ==
  /\ \E n \in [ips -> {0, RATE_LIMIT - 1}] :
       _rate_buckets = Buckets([ip \in Clients |-> IF ip \in ips THEN n[ip] ELSE 0])
  /\ admissions = [ip \in Clients |-> Occurrences(_rate_buckets[ip])]
  /\ req = [t \in Threads |-> NoRequest]

edgeFrame == <<arg, given, payload, payload2, extractVars, cascadeVars, _lock, th, lastSet, lastFetch, seqRun>>

\* ip = request.client.host; now = time.time()
Arrival(t, ips, eps, users) ==
  /\ req[t].pc = "idle"
  /\ calls < MaxArrivals
  /\ calls' = calls + 1
  /\ \E ip \in ips, ep \in eps, u \in users :
       req' = [req EXCEPT ![t] = [NoRequest EXCEPT !.pc = "rl", !.ep = ep, !.ip = ip,
                                                   !.user = u, !.now = now]]
  /\ UNCHANGED <<now, ticks, _data, _rate_buckets, admissions, edgeFrame>>

\* a request of either client to a source endpoint
Arrive(t) == Arrival(t, Clients, {<<"l", "c", ":">>}, {<<"c">>})

\* a request of either client, of a few
ArriveSome(t) == calls < MaxCalls /\ Arrive(t)

\* a request of the first client to that endpoint
ArriveFirst(t) == Arrival(t, {"10.0.0.1"}, {<<"l", "c", ":">>}, {<<"c">>})

\* a request of the first client to one of two endpoints
ArriveEither(t) ==
  /\ calls < MaxStoreCalls
  /\ Arrival(t, {"10.0.0.1"}, {<<"l", "c", ":">>, <<"c", "f", ":">>}, {<<"c">>})

\* a request while no other is under way, one request for each thread
ArriveAlone(t) ==
  /\ \A u \in Threads : req[u].pc = "idle"
  /\ calls < Cardinality(Threads)
  /\ Arrival(t, {"10.0.0.1"}, Sources, PathNames)

\* the path /v1/report/{platform}/{username}
Report == <<"report">>

\* the {platform} path segment
PlatformNames ==
  {"leetcode", "LeetCode", "lc", "LC", "codechef", "cc", "duolingo", "duo", "codeforces", "cf",
   "Cf", "hackerrank", "HACKERRANK", "hr", "lcc", "gfg", "codeforce"}

\* the usernames asked for through the unified endpoint and beside it
ReportNames == {<<"c">>, <<"c", "f", ":">>}

\* a request to the unified endpoint while no other is under way
ArriveReport(t) ==
  /\ \A u \in Threads : req[u].pc = "idle"
  /\ calls < Cardinality(Threads)
  /\ calls' = calls + 1
  /\ \E pf \in PlatformNames, u \in ReportNames :
       req' = [req EXCEPT ![t] = [NoRequest EXCEPT !.pc = "rl", !.ep = Report, !.platform = pf,
                                                   !.ip = "10.0.0.1", !.user = u, !.now = now]]
  /\ UNCHANGED <<now, ticks, _data, _rate_buckets, admissions, edgeFrame>>

\* a request to a source endpoint while no other is under way
ArriveSource(t) ==
  /\ \A u \in Threads : req[u].pc = "idle"
  /\ calls < Cardinality(Threads)
  /\ Arrival(t, {"10.0.0.1"}, Sources, ReportNames)

\* the handler of the path starts: api_unified, or a source handler, whose
\* first act is to build its key
Entered(r) ==
  IF r.ep = Report THEN [r EXCEPT !.pc = "route"]
  ELSE [r EXCEPT !.pc = "get", !.key = CacheKey(r.ep, r.user)]

\* while dq and dq[0] <= now - RATE_PERIOD: dq.popleft()
RECURSIVE Pruned(_, _)
Pruned(dq, clock) ==
  IF dq # <<>> /\ Head(dq) <= clock - RATE_PERIOD THEN Pruned(Tail(dq), clock) ELSE dq

FullAbove(dq) == Len(dq) > RATE_LIMIT

\* len(dq) >= RATE_LIMIT
Full(dq) == Len(dq) >= RATE_LIMIT

\* one bucket for every client
BucketKeyShared(r) == "10.0.0.1"

\* ip = request.client.host; dq = _rate_buckets[ip]
BucketKey(r) == r.ip

\* a dependency whose verdict the handler does not wait for
check_rate_limit_unheeded(t) ==
  /\ req[t].pc = "rl"
  /\ \E dq \in {Pruned(_rate_buckets[BucketKey(req[t])], req[t].now)} :
       /\ _rate_buckets' = [_rate_buckets EXCEPT ![BucketKey(req[t])] =
                              IF Full(dq) THEN dq ELSE Append(dq, req[t].now)]
       /\ admissions' = IF Full(dq) THEN admissions
                        ELSE [admissions EXCEPT ![req[t].ip] = WithAdmission(@, req[t].now)]
       /\ req' = [req EXCEPT ![t].pc = "get", ![t].key = CacheKey(req[t].ep, req[t].user),
                             ![t].resp = IF Full(dq) THEN TooManyRequests ELSE JNull]
  /\ UNCHANGED <<now, ticks, calls, _data, edgeFrame>>

\* the body of "with _rate_lock"; the dependency then returns True and the
\* handler starts, or the HTTPException ends the request
check_rate_limit(t) ==
  /\ req[t].pc = "rl"
  /\ \E dq \in {Pruned(_rate_buckets[BucketKey(req[t])], req[t].now)} :
       IF Full(dq)
       THEN /\ _rate_buckets' = [_rate_buckets EXCEPT ![BucketKey(req[t])] = dq]
            /\ admissions' = admissions
            /\ req' = [req EXCEPT ![t].pc = "done", ![t].resp = TooManyRequests]
       ELSE /\ _rate_buckets' = [_rate_buckets EXCEPT ![BucketKey(req[t])] = Append(dq, req[t].now)]
            /\ admissions' = [admissions EXCEPT ![req[t].ip] = WithAdmission(@, req[t].now)]
            /\ req' = [req EXCEPT ![t] = Entered(req[t])]
  /\ UNCHANGED <<now, ticks, calls, _data, edgeFrame>>

RoutedByPrefix(p) ==
  IF Len(p) >= 2 /\ SubSeq(p, 1, 2) = Chars("lc") THEN <<"l", "c", ":">>
  ELSE IF p \in {Chars("leetcode")} THEN <<"l", "c", ":">>
  ELSE IF p \in {Chars("codechef"), Chars("cc")} THEN <<"c", "c", ":">>
  ELSE IF p \in {Chars("duolingo"), Chars("duo")} THEN <<"d", "u", "o", ":">>
  ELSE IF p \in {Chars("codeforces"), Chars("cf")} THEN <<"c", "f", ":">>
  ELSE IF p \in {Chars("hackerrank"), Chars("hr")} THEN <<"h", "r", ":">>
  ELSE <<>>

\* the chain of tests of api_unified on p: the source handler it calls, <<>>
\* when it calls none
Routed(p) ==
  IF p \in {Chars("leetcode"), Chars("lc")} THEN <<"l", "c", ":">>
  ELSE IF p \in {Chars("codechef"), Chars("cc")} THEN <<"c", "c", ":">>
  ELSE IF p \in {Chars("duolingo"), Chars("duo")} THEN <<"d", "u", "o", ":">>
  ELSE IF p \in {Chars("codeforces"), Chars("cf")} THEN <<"c", "f", ":">>
  ELSE IF p \in {Chars("hackerrank"), Chars("hr")} THEN <<"h", "r", ":">>
  ELSE <<>>

\* raise HTTPException(404, "Unknown platform.")
NotFound == [status |-> 404, detail |-> "Unknown platform."]

\* a unified handler that passes the source handler's dependency once more
api_unified_rechecked(t) ==
  /\ req[t].pc = "route"
  /\ \E h \in {Routed(Lower(Chars(req[t].platform)))} :
       IF h = <<>>
       THEN /\ req' = [req EXCEPT ![t].pc = "done", ![t].resp = NotFound]
            /\ UNCHANGED <<_rate_buckets, admissions>>
       ELSE /\ req' = [req EXCEPT ![t] = Entered([req[t] EXCEPT !.ep = h])]
            /\ _rate_buckets' = [_rate_buckets EXCEPT ![req[t].ip] = Append(@, req[t].now)]
            /\ admissions' = [admissions EXCEPT ![req[t].ip] = WithAdmission(@, req[t].now)]
  /\ UNCHANGED <<now, ticks, calls, _data, edgeFrame>>

api_unified_as_typed(t) ==
  /\ req[t].pc = "route"
  /\ \E h \in {Routed(Chars(req[t].platform))} :
       IF h = <<>>
       THEN req' = [req EXCEPT ![t].pc = "done", ![t].resp = NotFound]
       ELSE req' = [req EXCEPT ![t] = Entered([req[t] EXCEPT !.ep = h])]
  /\ UNCHANGED <<now, ticks, calls, _data, _rate_buckets, admissions, edgeFrame>>

\* p = platform.lower(); the source handler is called as a plain function,
\* its rate-limit dependency not run again
api_unified(t) ==
  /\ req[t].pc = "route"
  /\ \E h \in {Routed(Lower(Chars(req[t].platform)))} :
       IF h = <<>>
       THEN req' = [req EXCEPT ![t].pc = "done", ![t].resp = NotFound]
       ELSE req' = [req EXCEPT ![t] = Entered([req[t] EXCEPT !.ep = h])]
  /\ UNCHANGED <<now, ticks, calls, _data, _rate_buckets, admissions, edgeFrame>>

\* a get that also drops every other entry that has expired
EndpointGetSweeping(t) ==
  /\ req[t].pc = "get"
  /\ \E rec \in {Get(JDict(_data), req[t].key)} :
       /\ _data' = [k \in {kk \in DOMAIN _data : ~Expired(now, _data[kk].exp)} |-> _data[k]]
       /\ IF rec = JNull \/ Expired(now, rec.exp)
          THEN req' = [req EXCEPT ![t].pc = "fetch", ![t].gets = @ + 1]
          ELSE req' = [req EXCEPT ![t].pc = "done", ![t].gets = @ + 1, ![t].resp = Ok(rec.val)]
  /\ UNCHANGED <<now, ticks, calls, _rate_buckets, admissions, edgeFrame>>

\* val = cache.get(key); if val is not None: return val
EndpointGet(t) ==
  /\ req[t].pc = "get"
  /\ \E rec \in {Get(JDict(_data), req[t].key)} :
       IF rec = JNull
       THEN /\ _data' = _data
            /\ req' = [req EXCEPT ![t].pc = "fetch", ![t].gets = @ + 1]
       ELSE IF Expired(now, rec.exp)
       THEN /\ _data' = Del(_data, req[t].key)
            /\ req' = [req EXCEPT ![t].pc = "fetch", ![t].gets = @ + 1]
       ELSE /\ _data' = _data
            /\ req' = [req EXCEPT ![t].pc = "done", ![t].gets = @ + 1, ![t].resp = Ok(rec.val)]
  /\ UNCHANGED <<now, ticks, calls, _rate_buckets, admissions, edgeFrame>>

\* data = fn(arg)
EndpointFetch(t) ==
  /\ req[t].pc = "fetch"
  /\ \E d \in FetcherResults(req[t].ep, req[t].user) :
       req' = [req EXCEPT ![t].pc = "set", ![t].data = d, ![t].fetches = @ + 1]
  /\ UNCHANGED <<now, ticks, calls, _data, _rate_buckets, admissions, edgeFrame>>

\* cache.set(key, data); return data
EndpointSet(t) ==
  /\ req[t].pc = "set"
  /\ _data' = Put(_data, req[t].key,
                 SetEntry(Get(JDict(_data), req[t].key), req[t].data, now + CACHE_TTL))
  /\ req' = [req EXCEPT ![t].pc = "done", ![t].sets = @ + 1, ![t].resp = Ok(req[t].data)]
  /\ UNCHANGED <<now, ticks, calls, _rate_buckets, admissions, edgeFrame>>

\* a clear that removes the expired entries only
EndpointClearExpired(t) ==
  /\ req[t].pc = "idle"
  /\ calls < MaxArrivals
  /\ calls' = calls + 1
  /\ _data' = [k \in {kk \in DOMAIN _data : ~Expired(now, _data[kk].exp)} |-> _data[k]]
  /\ req' = [req EXCEPT ![t] = [NoRequest EXCEPT !.pc = "done", !.ep = <<"clear">>, !.now = now,
                                                 !.resp = Ok(JDict("cache" :> JStr("cleared"))),
                                                 !.found = Cardinality(DOMAIN _data)]]
  /\ UNCHANGED <<now, ticks, _rate_buckets, admissions, edgeFrame>>

\* POST /admin/clear_cache: cache.clear(); return {"cache": "cleared"}
EndpointClear(t) ==
  /\ req[t].pc = "idle"
  /\ calls < MaxArrivals
  /\ calls' = calls + 1
  /\ _data' = EmptyMap
  /\ req' = [req EXCEPT ![t] = [NoRequest EXCEPT !.pc = "done", !.ep = <<"clear">>, !.now = now,
                                                 !.resp = Ok(JDict("cache" :> JStr("cleared"))),
                                                 !.found = Cardinality(DOMAIN _data)]]
  /\ UNCHANGED <<now, ticks, _rate_buckets, admissions, edgeFrame>>

\* the handler runs and answers; what it does to the cache is left out
Handled(t) ==
  /\ req[t].pc = "get"
  /\ req' = [req EXCEPT ![t].pc = "done", ![t].resp = Ok(JNull)]
  /\ UNCHANGED <<now, ticks, calls, _data, _rate_buckets, admissions, edgeFrame>>

\* the response is sent
Respond(t) ==
  /\ req[t].pc = "done"
  /\ req' = [req EXCEPT ![t] = NoRequest]
  /\ UNCHANGED <<now, ticks, calls, _data, _rate_buckets, admissions, edgeFrame>>

\* requests of two clients, as the rate limiter sees them
LimiterNext ==
  \/ \E t \in Threads : Arrive(t)
  \/ \E t \in Threads : check_rate_limit(t)
  \/ \E t \in Threads : Handled(t)
  \/ \E t \in Threads : Respond(t)
  \/ Tick

\* a few requests of two clients, as the rate limiter sees them
TwoClientsNext ==
  \/ \E t \in Threads : ArriveSome(t)
  \/ \E t \in Threads : check_rate_limit(t)
  \/ \E t \in Threads : Handled(t)
  \/ \E t \in Threads : Respond(t)
  \/ Tick

\* requests of one client, as the rate limiter sees them
WindowNext ==
  \/ \E t \in Threads : ArriveFirst(t)
  \/ \E t \in Threads : check_rate_limit(t)
  \/ \E t \in Threads : Handled(t)
  \/ \E t \in Threads : Respond(t)
  \/ Tick

\* requests of one client to one source endpoint, and cache clears
EndpointNext ==
  \/ \E t \in Threads : ArriveFirst(t)
  \/ \E t \in Threads : check_rate_limit(t)
  \/ \E t \in Threads : EndpointGet(t)
  \/ \E t \in Threads : EndpointFetch(t)
  \/ \E t \in Threads : EndpointSet(t)
  \/ \E t \in Threads : EndpointClear(t)
  \/ \E t \in Threads : Respond(t)
  \/ Tick

\* requests of one client to two source endpoints, and cache clears
StoreNext ==
  \/ \E t \in Threads : ArriveEither(t)
  \/ \E t \in Threads : check_rate_limit(t)
  \/ \E t \in Threads : EndpointGet(t)
  \/ \E t \in Threads : EndpointFetch(t)
  \/ \E t \in Threads : EndpointSet(t)
  \/ \E t \in Threads : EndpointClear(t)
  \/ \E t \in Threads : Respond(t)
  \/ Tick

\* requests of one client, one after the other, to any endpoint and for any name
KeysNext ==
  \/ \E t \in Threads : ArriveAlone(t)
  \/ \E t \in Threads : check_rate_limit(t)
  \/ \E t \in Threads : EndpointGet(t)
  \/ \E t \in Threads : EndpointFetch(t)
  \/ \E t \in Threads : EndpointSet(t)
  \/ \E t \in Threads : Respond(t)

\* requests of one client, one after the other, to the unified endpoint and
\* to the source endpoints
UnifiedNext ==
  \/ \E t \in Threads : ArriveReport(t)
  \/ \E t \in Threads : ArriveSource(t)
  \/ \E t \in Threads : check_rate_limit(t)
  \/ \E t \in Threads : api_unified(t)
  \/ \E t \in Threads : EndpointGet(t)
  \/ \E t \in Threads : EndpointFetch(t)
  \/ \E t \in Threads : EndpointSet(t)
  \/ \E t \in Threads : Respond(t)

vars == <<cascadeVars, cacheVars, sideVars>>

\* one call of fetch_leetcode_live, the cache untouched
Init == CascadeInit /\ CacheInit /\ NormIdle /\ ExtractIdle /\ EdgeInit({})
Next == CascadeNext
Spec == Init /\ [][Next]_vars

\* the steps that come to an end by themselves: a skip, a return, a wait
\* that is given a timeout (page.goto, the requests calls), or a page call
\* that waits for no network.  The GraphQL fetch made inside the page is not
\* among them: page.evaluate takes no timeout and the fetch is given none.
TimedSteps ==
  \/ S1Skip
  \/ S1Goto
  \/ S1PageData
  \/ S1Html
  \/ S2Query
  \/ S3Stats
  \/ S4Html
  \/ S5Mirror
  \/ S6Retry
  \/ Final

\* one call of fetch_leetcode_live, every step that ends by itself taken in
\* the end
SpecTimed == Init /\ [][Next]_vars /\ WF_vars(TimedSteps)

\* the cache and the request path, no cascade call under way
CacheSpecInit ==
  /\ CacheInit /\ CascadeInit /\ NormIdle /\ ExtractIdle /\ EdgeInit({})
  /\ username = "alice" /\ ~playwright
SpecCache == CacheSpecInit /\ [][CacheNext]_vars
SpecGateway == CacheSpecInit /\ [][GatewayNext]_vars

\* the normalizer called on its own
NormSpecInit ==
  /\ NormInit /\ CacheInit /\ CascadeInit /\ ExtractIdle /\ EdgeInit({})
  /\ username = "alice" /\ ~playwright
SpecNormalizer == NormSpecInit /\ [][NormNext]_vars

\* the extractor called on its own
ExtractSpecInit ==
  /\ ExtractInit /\ CacheInit /\ CascadeInit /\ NormIdle /\ EdgeInit({})
  /\ username = "alice" /\ ~playwright
SpecExtractor == ExtractSpecInit /\ [][ExtractNext]_vars

\* the rate limiter on its own
LimiterInit ==
  /\ EdgeInit(Clients) /\ CacheInit /\ CascadeInit /\ NormIdle /\ ExtractIdle
  /\ username = "alice" /\ ~playwright
SpecLimiter == LimiterInit /\ [][LimiterNext]_vars

\* the rate limiter and a few requests of two clients
SpecTwoClients == LimiterInit /\ [][TwoClientsNext]_vars

\* the rate limiter and one client, every admission logged
WindowInit ==
  /\ EdgeInitLogged({"10.0.0.1"}) /\ CacheInit /\ CascadeInit /\ NormIdle /\ ExtractIdle
  /\ username = "alice" /\ ~playwright
SpecWindow == WindowInit /\ [][WindowNext]_vars

\* the rate limiter, a source endpoint and the cache clear
EndpointInit ==
  /\ EdgeInit({"10.0.0.1"}) /\ CacheInit /\ CascadeInit /\ NormIdle /\ ExtractIdle
  /\ username = "alice" /\ ~playwright
SpecEndpoint == EndpointInit /\ [][EndpointNext]_vars

\* the store under two keys
StoreInit ==
  /\ EdgeInit({}) /\ CacheInit /\ CascadeInit /\ NormIdle /\ ExtractIdle
  /\ username = "alice" /\ ~playwright
SpecStore == StoreInit /\ [][StoreNext]_vars

\* the cache keys of the source endpoints
SpecKeys == CacheSpecInit /\ [][KeysNext]_vars

\* the unified endpoint beside the source endpoints
SpecUnified == EndpointInit /\ [][UnifiedNext]_vars

(***************************************************************************)
(* Properties of the cache and of the request path                         *)
(***************************************************************************)
\* a get that found an entry / that started after a completed set, with no
\* set or clear of the key since
FoundEntry(t) == th[t].pc = "got" /\ th[t].rec # JNull
AfterSet(t) == th[t].pc = "got" /\ th[t].expect # JNull

\* C7: a get that finds an entry at a time not past its expiry returns the
\* stored value and leaves the entry as it is; past the expiry it returns None
\* and no entry is left.  Hence a get after set(k, v, ttl) returns v up to the
\* expiry the set computed, and None, with no entry left, after it.
C7_GetHonoursExpiry ==
  \A t \in Threads :
    /\ (FoundEntry(t) /\ th[t].at <= th[t].rec.exp)
         => (th[t].ret = th[t].rec.val /\ th[t].left = th[t].rec)
    /\ (FoundEntry(t) /\ th[t].at > th[t].rec.exp)
         => (th[t].ret = JNull /\ th[t].left = JNull)
    /\ (AfterSet(t) /\ th[t].at <= th[t].expect.exp) => th[t].ret = th[t].expect.val
    /\ (AfterSet(t) /\ th[t].at > th[t].expect.exp)
         => (th[t].ret = JNull /\ th[t].left = JNull)

\* one thread has read the value before the expiry, the other has met the same
\* entry after it
C7_Witness ==
  \E t, u \in Threads :
    /\ AfterSet(t) /\ FoundEntry(t) /\ th[t].at <= th[t].expect.exp
    /\ th[t].ret = th[t].expect.val
    /\ AfterSet(u) /\ FoundEntry(u) /\ th[u].at > th[u].expect.exp
    /\ th[u].expect = th[t].expect
    /\ th[u].left = JNull

InCritical(t) == th[t].pc \in {"get_read", "get_check", "set_write", "clear_do"}

\* C9: at most one thread is inside a cache operation, and it holds the lock;
\* a get that started after a completed set(k, v), no set of k or clear having
\* completed since and the entry not expired, returns v.
C9_Linearizable ==
  /\ \A t, u \in Threads : (InCritical(t) /\ InCritical(u)) => t = u
  /\ \A t \in Threads : InCritical(t) => _lock = t
  /\ \A t \in Threads :
       (AfterSet(t) /\ th[t].at <= th[t].expect.exp) => th[t].ret = th[t].expect.val

\* a get after a completed set is inside the cache while another thread's set
\* of the same key waits for the lock
C9_Witness ==
  \E t, u \in Threads :
    /\ th[t].pc = "get_check" /\ th[t].expect # JNull
    /\ th[u].pc = "set_wait" /\ th[u].key = th[t].key

\* C10: the fetcher runs only after a get that returned None; a request whose
\* get returned a value returns it without a fetch; what was fetched is stored
\* under the key with the default TTL and returned; and while requests run one
\* after the other, a fetch happens only when the entry stored for the fetch
\* before it has expired.
C10_FetchOnlyOnMiss ==
  \A t \in Threads :
    /\ (th[t].pc = "fetch" \/ th[t].fetched) => th[t].ret = JNull
    /\ (th[t].pc = "returned" /\ th[t].ret # JNull)
         => (~th[t].fetched /\ th[t].out = th[t].ret)
    /\ (th[t].pc = "returned" /\ th[t].fetched)
         => (th[t].out = th[t].val /\ th[t].left = Entry(th[t].val, th[t].at + CACHE_TTL))
    /\ (seqRun /\ th[t].pc = "fetch" /\ lastFetch[th[t].key] # JNull)
         => th[t].at > lastFetch[th[t].key].exp

\* in a run of requests one after the other, a request has been answered from
\* the cache with the degraded result an earlier request fetched
C10_Witness ==
  \E t \in Threads :
    /\ seqRun
    /\ th[t].pc = "returned" /\ ~th[t].fetched
    /\ lastFetch[th[t].key] # JNull
    /\ th[t].out = lastFetch[th[t].key].val
    /\ th[t].out.report["error"] = JBool(TRUE)

\* in such a run a request fetches again once the entry has expired
RefetchAfterExpiry ==
  \E t \in Threads : seqRun /\ th[t].pc = "fetch" /\ lastFetch[th[t].key] # JNull

\* C17: a request whose strategies all failed leaves the cache as it found
\* it; in particular, when its cache.set finds an unexpired validated result
\* that a concurrent request for the same key has stored, that result is
\* still the value of the key afterwards.
C17_FailureLeavesCache ==
  \A t \in Threads :
    (/\ th[t].pc = "set_done"
     /\ th[t].mode = "request"
     /\ th[t].prev # JNull
     /\ th[t].prev.exp >= th[t].at
     /\ Valid(th[t].prev.val))
      => Valid(th[t].left.val)

(***************************************************************************)
(* Properties of the cascade                                               *)
(***************************************************************************)
CanonicalKeys ==
  {"error", "errorMessage", "username", "totalSolved", "easySolved", "mediumSolved",
   "hardSolved", "acceptanceRate", "ranking", "reputation", "contributionPoints",
   "streak", "totalActiveDays", "submissionCalendar"}

Returned == pc = "done"
PassesValidity(res) == res.report["totalSolved"].i > 0
StrategyOf(label) ==
  CASE label \in {"browser", "browser_page", "browser_graphql", "browser_html"} -> "browser"
    [] label = "retry" -> "graphql"
    [] OTHER -> label
Attempted == {StrategyOf(attempts[n]) : n \in DOMAIN attempts}
Times(label) == Cardinality({n \in DOMAIN attempts : attempts[n] = label})
StrategyList ==
  (IF playwright THEN {"browser"} ELSE {}) \cup {"graphql", "statsapi", "html", "mirror"}
\* every strategy of the list was tried, every query and every mirror of it
Exhausted ==
  /\ Attempted = StrategyList
  /\ Times("graphql") = NumQueries
  /\ Times("mirror") = NumMirrors

\* C1: whatever the strategies' outcomes, fetch_leetcode_live raises nothing
\* and the report it returns has exactly the canonical key set.
C1_AlwaysWellFormed ==
  /\ pc # "raised"
  /\ Returned => DOMAIN ret.report = CanonicalKeys
\* every strategy failed without a candidate, and the call returned
C1_Witness ==
  Returned /\ playwright /\ cands = {} /\ Exhausted /\ ret.report["error"] = JBool(TRUE)

\* C2: a candidate that passes the validity test is returned at once, as it
\* is, and no acquisition attempt follows the one that produced it.
C2_ShortCircuit ==
  \A c \in cands :
    PassesValidity(c.res) => Returned /\ ret = c.res /\ Len(attempts) = c.at
\* the first GraphQL query validated after nothing else was tried
C2_Witness ==
  \E c \in cands : PassesValidity(c.res) /\ c.by = "graphql" /\ c.at = 1 /\ Returned

\* C3: a result that no strategy validated is returned only after every
\* strategy of the list was attempted.
C3_PartialNeverReturnsEarly ==
  (Returned /\ ~PassesValidity(ret)) => Exhausted

\* the partial candidates of the direct backend call and of the mirrors
Partials == {c \in cands : c.by \in {"graphql", "mirror"} /\ ~PassesValidity(c.res)}
Keeps(res, c) ==
  \A k \in DOMAIN c.res.report : Truthy(c.res.report[k]) => res.report[k] = c.res.report[k]

\* C4: the list exhausted without a validated result and a partial candidate
\* produced, the report returned is a partial candidate with every field it
\* has populated kept.
C4_BestEffortKept ==
  (Returned /\ Exhausted /\ ~PassesValidity(ret) /\ Partials # {})
    => \E c \in Partials : Keeps(ret, c)

SaysNoDataReachable(msg) == msg = JStr(MsgUnableToRetrieve)
SaysDataIncomplete(msg) == msg \in {JStr(MsgStatsUnavailable), JStr(MsgTemplate)}

\* C5: every strategy exhausted and no candidate produced, the degraded
\* template is returned with a message saying that no data was reachable,
\* not the one that says data was reachable but incomplete.
C5_NoDataMessage ==
  (Returned /\ Exhausted /\ cands = {})
    => /\ ret.report["error"] = JBool(TRUE)
       /\ \A k \in {"totalSolved", "easySolved", "mediumSolved", "hardSolved"} : ret.report[k] = JInt(0)
       /\ ret.report["ranking"] = JNull
       /\ ret.report["submissionCalendar"] = EmptyDict
       /\ SaysNoDataReachable(ret.report["errorMessage"])
       /\ ~SaysDataIncomplete(ret.report["errorMessage"])

FoundRankings == {c.res.report["ranking"] : c \in cands} \ {JNull}

\* C6: no strategy found a statistics row and the strategies found the
\* profile ranking r: the report has error = true, ranking = r and the
\* message that detailed statistics were unavailable.
C6_RankingKept ==
  \A r \in Rankings :
    (Returned /\ (\A c \in cands : ~PassesValidity(c.res)) /\ FoundRankings = {JInt(r)})
      => /\ ret.report["error"] = JBool(TRUE)
         /\ ret.report["ranking"] = JInt(r)
         /\ ret.report["errorMessage"] = JStr(MsgStatsUnavailable)

\* the place of an attempt in the order the docstring gives: the browser
\* page with its intercepted GraphQL, the direct GraphQL call, the HTML
\* scrape, the mirrors; 0 for an attempt that is none of the four
DocstringRank(label) ==
  CASE label \in {"browser", "browser_page", "browser_graphql", "browser_html"} -> 1
    [] label = "graphql" -> 2
    [] label = "html" -> 3
    [] label = "mirror" -> 4
    [] OTHER -> 0

\* C31: the strategies are attempted in the fixed order browser page, direct
\* GraphQL call, HTML scrape, mirrors: no other acquisition step runs
\* between them and no network attempt follows the mirrors.
C31_DocstringOrder ==
  /\ \A n \in DOMAIN attempts : DocstringRank(attempts[n]) # 0
  /\ \A m, n \in DOMAIN attempts :
       m < n => DocstringRank(attempts[m]) <= DocstringRank(attempts[n])

NonEmptyText(v) == IsStr(v) /\ v.s # ""

\* C38: in every report fetch_leetcode_live returns, whichever strategy
\* produced it, the error flag and the error message agree: error = false
\* implies that errorMessage is null, error = true that it is a non-empty text.
C38_FlagAndMessageAgree ==
  Returned =>
    /\ ret.report["error"] = JBool(FALSE) => ret.report["errorMessage"] = JNull
    /\ ret.report["error"] = JBool(TRUE) => NonEmptyText(ret.report["errorMessage"])

\* C39: in every report fetch_leetcode_live returns, error = false if and
\* only if totalSolved > 0.
C39_FlagIffSolved ==
  Returned => (ret.report["error"] = JBool(FALSE) <=> PassesValidity(ret))

BrowserLabels == {"browser", "browser_page", "browser_graphql", "browser_html"}

\* the call has just left the browser strategy: whatever was attempted so
\* far was attempted in the browser
LeftBrowser == pc # "s1" /\ \A n \in DOMAIN attempts : attempts[n] \in BrowserLabels

\* the call stands where it stands when PLAYWRIGHT_AVAILABLE is false and
\* Strategy 1 was skipped: at the first query of Strategy 2, the template
\* as it was made, nothing kept, nothing returned, nothing open
AsSkipped ==
  /\ pc = "s2" /\ step = 1
  /\ tpl = leetcode_template(username)
  /\ mirror_result = NoResult
  /\ ret = NoResult
  /\ held = {}

\* none of the browser's three looks for a matched user found one
NoMatchedUserFound ==
  \A c \in cands : attempts[c.at] \notin {"browser", "browser_page", "browser_graphql"}

\* the browser strategy produced no result at all
NothingFromBrowser == \A c \in cands : c.by # "browser"

\* C32: the cascade goes on the same whether or not the browser capability
\* is there, when the browser attempt fails or finds no matched user: the
\* call leaves Strategy 1 in the state in which it skips it, so that for
\* every combination of outcomes of the other strategies the result is the
\* same.
C32_SameWithoutBrowser ==
  (LeftBrowser /\ NoMatchedUserFound) => AsSkipped

\* C32 for a browser attempt that produced no result: it failed, or found
\* neither a matched user nor solved counts in the page it scraped.
C32_SameWhenBrowserEmpty ==
  (LeftBrowser /\ NothingFromBrowser) => AsSkipped

\* the browser made all four of its attempts and produced nothing
C32_Witness ==
  /\ playwright
  /\ LeftBrowser /\ NothingFromBrowser
  /\ attempts = <<"browser", "browser_page", "browser_graphql", "browser_html">>
  /\ AsSkipped

\* how many times an acquisition step is attempted at most
Budget(label) ==
  CASE label = "graphql" -> NumQueries
    [] label = "mirror" -> NumMirrors
    [] OTHER -> 1

AttemptLabels == BrowserLabels \cup {"graphql", "statsapi", "html", "mirror", "retry"}

\* C33: every execution of fetch_leetcode_live terminates: each acquisition
\* step is attempted a fixed, finite number of times, every blocking network
\* wait is abandoned after its timeout, and the call proceeds and in the end
\* returns.
C33_AlwaysTerminates ==
  /\ [](\A label \in AttemptLabels : Times(label) <= Budget(label))
  /\ <>Returned

(***************************************************************************)
(* Properties of the normalizer                                            *)
(***************************************************************************)
\* the values j holds under the keys inData of its data envelope and under
\* the keys atTop at top level
Found(j, inData, atTop) ==
  {j.d[k] : k \in atTop \cap DOMAIN j.d}
  \cup (IF Has(j, "data") /\ IsDict(j.d["data"])
        THEN {j.d["data"].d[k] : k \in inData \cap DOMAIN j.d["data"].d}
        ELSE {})

\* the input has a matched-user record, or a contest ranking, somewhere
HasUserBranch(j) ==
  \E v \in Found(j, {"matchedUser", "user"}, {"matchedUser", "user", "profile"}) :
    IsDict(v) /\ Truthy(v)
HasContestBranch(j) ==
  \E v \in Found(j, {"userContestRanking"}, {"userContestRanking", "userContestRankingHistory"}) :
    Truthy(v)

\* top-level keys the normalizer files under the matched-user record
UserLevelKeys == {"submitStatsGlobal", "submitStats", "submissionCalendar"}

\* a payload was returned: a dict, {} for an input that is not a dict, with
\* no contest ranking and no loose field the input does not have
Total ==
  /\ payload # Raised
  /\ IsDict(payload)
  /\ ~IsDict(arg) => payload = EmptyDict
  /\ IsDict(arg) =>
       /\ ~HasContestBranch(arg) => ~Has(payload, "userContestRanking")
       /\ \A k \in LooseKeys : ~Has(arg, k) => ~Has(payload, k)

\* C19: the normalizer returns a payload for every input and never raises;
\* an input that is not a map gives the empty payload, and an input without
\* a matched-user record, a contest ranking or a loose top-level field gives
\* a payload without the matching field.
C19_AbsentLeavesUnset ==
  payload # NotCalled =>
    /\ Total
    /\ IsDict(arg) /\ ~HasUserBranch(arg) => ~Has(payload, "matchedUser")

\* C19, amended: as above, except that an input without a matched-user
\* record still gets a matched-user field when it carries submitStatsGlobal,
\* submitStats or submissionCalendar at top level; the field then holds
\* exactly those of the three keys the input has.
C19_Total ==
  payload # NotCalled =>
    /\ Total
    /\ IsDict(arg) /\ ~HasUserBranch(arg) =>
         IF UserLevelKeys \cap DOMAIN arg.d = {}
         THEN ~Has(payload, "matchedUser")
         ELSE /\ Has(payload, "matchedUser")
              /\ IsDict(payload.d["matchedUser"])
              /\ DOMAIN payload.d["matchedUser"].d = UserLevelKeys \cap DOMAIN arg.d

C19_Witness ==
  /\ payload # NotCalled
  /\ IsDict(arg)
  /\ ~HasUserBranch(arg)
  /\ ~HasContestBranch(arg)
  /\ Has(arg, "submitStatsGlobal")
  /\ Has(payload, "matchedUser")

\* C20: normalizing the result of a normalization gives that result back.
C20_Idempotent == payload2 # NotCalled => payload2 = payload

C20_Witness ==
  /\ payload2 # NotCalled
  /\ arg # payload
  /\ Has(payload, "matchedUser")
  /\ Has(payload, "userContestRanking")
  /\ Has(payload, "submissionCalendar")

\* the places a matched-user record can sit in, in their order of precedence
UserPlaces ==
  <<<<"data", "matchedUser">>, <<"data", "user">>, <<"matchedUser">>, <<"user">>, <<"profile">>>>

\* what j holds at a place, JNull if nothing
Placed(j, at) ==
  IF Len(at) = 1 THEN Get(j, at[1])
  ELSE IF Has(j, "data") /\ IsDict(j.d["data"]) THEN Get(j.d["data"], at[2])
  ELSE JNull

\* the places of j that hold a map-valued, non-empty record
RecordPlaces(j) == {n \in DOMAIN UserPlaces : IsDict(Placed(j, UserPlaces[n])) /\ Truthy(Placed(j, UserPlaces[n]))}

\* the first of them in the order of precedence
FirstRecord(j) == Placed(j, UserPlaces[CHOOSE n \in RecordPlaces(j) : \A m \in RecordPlaces(j) : n <= m])

StatsKeys == {"submitStatsGlobal", "submitStats"}

\* C21: when the input holds a map-valued matched-user record under
\* data.matchedUser, data.user, matchedUser, user or profile, the payload's
\* matched-user record is the first such record in that order, and the
\* statistics sub-records of that record are in the payload's record.
C21_RecordByPrecedence ==
  (payload # NotCalled /\ IsDict(given) /\ RecordPlaces(given) # {}) =>
    /\ Has(payload, "matchedUser")
    /\ payload.d["matchedUser"] = FirstRecord(given)
    /\ \A k \in StatsKeys :
         Has(FirstRecord(given), k) =>
           (IsDict(payload.d["matchedUser"]) /\ Has(payload.d["matchedUser"], k))

\* C22: a populated statistics sub-record of the matched-user record the
\* normalizer took is still the payload's when the input carries the same
\* key at top level.
C22_PopulatedKept ==
  (payload # NotCalled /\ IsDict(given) /\ NormUser(TopUser(given, DataUser(given))) # EmptyMap) =>
    \A k \in StatsKeys :
      (Has(given, k) /\ Truthy(Get(TopUser(given, DataUser(given)), k)))
        => Get(payload.d["matchedUser"], k) = Get(TopUser(given, DataUser(given)), k)

\* C23: the call leaves its argument as it was: the raw map and every map
\* nested in it are equal before and after.
C23_ArgumentUntouched == payload # NotCalled => arg = given

(***************************************************************************)
(* Properties of the extractor                                             *)
(***************************************************************************)
\* the steps of the loop add up to the call as a whole
ExtractorAgrees == extracted # NotCalled => extracted = extract_stats_from_normalized(extracting, username)

Fields == {"total", "easy", "medium", "hard"}

\* the row visited last was a dict with a text label, or none, and its pass
\* of the loop ended
RowCounted ==
  /\ visited # NotCalled
  /\ tally # Raised
  /\ IsDict(visited.row)

\* its label as the extractor compares it: lower case, empty when missing
LabelOf(r) == Lower(Chars(PyOr(Get(r, "difficulty"), JStr("")).s))

\* its count: count or submissions, zero for what is no number
CountOf(r) == PyIntOrZero(PyOr(PyOr(Get(r, "count"), Get(r, "submissions")), JInt(0)))

\* the count a label is assigned to, in the fixed order; "none" for none
AssignedTo(label) ==
  IF Contains(<<"a", "l", "l">>, label) \/ label = <<>> THEN "total"
  ELSE IF Contains(<<"e", "a", "s", "y">>, label) THEN "easy"
  ELSE IF Contains(<<"m", "e", "d", "i", "u", "m">>, label) THEN "medium"
  ELSE IF Contains(<<"h", "a", "r", "d">>, label) THEN "hard"
  ELSE "none"

\* the label holds none of the four words
Unrecognized(label) ==
  /\ ~Contains(<<"a", "l", "l">>, label)
  /\ ~Contains(<<"e", "a", "s", "y">>, label)
  /\ ~Contains(<<"m", "e", "d", "i", "u", "m">>, label)
  /\ ~Contains(<<"h", "a", "r", "d">>, label)

MediumTwelve == JDict("difficulty" :> JStr("Medium") @@ "submissions" :> JStr("12"))

\* C24: a row is assigned to at most one count, by the substring test on
\* its lowered label in the order all-or-empty, easy, medium, hard; the
\* count it is assigned to becomes the row's count and the other counts stay
\* as they were; the row Medium / "12" gives medium = 12.
C24_OneCountPerRow ==
  RowCounted =>
    /\ \A f \in Fields :
         tally[f] = IF f = AssignedTo(LabelOf(visited.row)) THEN CountOf(visited.row)
                    ELSE visited.before[f]
    /\ visited.row = MediumTwelve => tally = [visited.before EXCEPT !.medium = 12]

\* the row Medium / "12" after a row that set another count
C24_Witness ==
  /\ RowCounted
  /\ visited.row = MediumTwelve
  /\ visited.before.total = 5
  /\ tally.medium = 12
  /\ tally.total = 5

ZeroSeven == JDict("difficulty" :> JStr("Easy") @@ "count" :> JInt(0) @@ "submissions" :> JInt(7))

\* the count of a row read from its count field when the row has one, from
\* its submissions field only when it has none
ByCountField(r) ==
  IF Has(r, "count") THEN PyIntOrZero(PyOr(r.d["count"], JInt(0)))
  ELSE PyIntOrZero(PyOr(Get(r, "submissions"), JInt(0)))

\* C40: a row that has a count field is counted by that field, and its
\* submissions field is consulted only when count is absent; the row with
\* count 0 and submissions 7 contributes 0 to its solved count.
C40_CountFieldFirst ==
  (RowCounted /\ AssignedTo(LabelOf(visited.row)) # "none") =>
    /\ tally[AssignedTo(LabelOf(visited.row))] = ByCountField(visited.row)
    /\ visited.row = ZeroSeven => tally.easy = 0

\* the rows of the statistics array of a payload built by UserWith
RowsGiven == extracting.d["matchedUser"].d["submitStatsGlobal"].d["acSubmissionNum"].l

\* the sum of the counts of the rows assigned to f
RECURSIVE SumFor(_, _)
SumFor(rows, f) ==
  IF rows = <<>> THEN 0
  ELSE (IF IsDict(Head(rows)) /\ AssignedTo(LabelOf(Head(rows))) = f THEN CountOf(Head(rows)) ELSE 0)
       + SumFor(Tail(rows), f)

\* C25: each of the four solved counts of the result is the sum of the
\* counts of the rows assigned to it.
C25_CountsAreSums ==
  (extracted \notin {NotCalled, Raised} /\ Truthy(MatchedUser(extracting))) =>
    /\ extracted.report["totalSolved"] = JInt(SumFor(RowsGiven, "total"))
    /\ extracted.report["easySolved"] = JInt(SumFor(RowsGiven, "easy"))
    /\ extracted.report["mediumSolved"] = JInt(SumFor(RowsGiven, "medium"))
    /\ extracted.report["hardSolved"] = JInt(SumFor(RowsGiven, "hard"))

\* C26: a row whose label is unrecognized or missing (absent, null, empty)
\* changes none of the four counts.
C26_UnlabelledChangesNothing ==
  (RowCounted /\ Unrecognized(LabelOf(visited.row))) => tally = visited.before

\* C26, amended: a row whose label is text without any of the four words
\* changes none of the four counts; a row whose label is absent, null or
\* empty sets the total to its count and leaves the other three.
C26_UnrecognizedChangesNothing ==
  (RowCounted /\ Unrecognized(LabelOf(visited.row))) =>
    IF LabelOf(visited.row) = <<>>
    THEN tally = [visited.before EXCEPT !.total = CountOf(visited.row)]
    ELSE tally = visited.before

\* a row labelled "Other" after a row that set the total
C26_Witness ==
  /\ RowCounted
  /\ visited.row = Row("Other", 4)
  /\ visited.before.total = 5
  /\ tally = visited.before

\* C27: no pass of the loop raises, whatever the row holds.
C27_RowsNeverRaise == visited # NotCalled => tally # Raised

\* C28: in a result, error is false exactly when one of the four counts is
\* above zero; when it is true, the message is the statistics-unavailable
\* one if a non-empty calendar or a ranking was found and the
\* unable-to-retrieve one otherwise, also without a matched-user record.
C28_ErrorFlagAndMessage ==
  extracted \notin {NotCalled, Raised} =>
    /\ extracted.report["error"] =
         JBool(~\E k \in {"totalSolved", "easySolved", "mediumSolved", "hardSolved"} :
                  extracted.report[k].i > 0)
    /\ extracted.report["error"].b =>
         extracted.report["errorMessage"] =
           IF Truthy(extracted.report["submissionCalendar"]) \/ Truthy(extracted.report["ranking"])
           THEN JStr(MsgStatsUnavailable)
           ELSE JStr(MsgUnableToRetrieve)

(***************************************************************************)
(* Properties of the cache keys, the rate limiter and the endpoints        *)
(***************************************************************************)
\* C11: for every username, also one with ":" in it or one that spells a
\* source tag, the keys of two different source endpoints differ; so every
\* entry of the cache sits under the key of the endpoint and username whose
\* fetcher produced it, and what a request is answered with was produced by
\* the fetcher of its own endpoint for its own username.
\* (The first conjunct speaks of CacheKey alone: it is evaluated in the
\* initial state.)
C11_KeysApart ==
  /\ calls = 0 =>
       \A u \in PathNames : \A p, q \in Sources : p # q => CacheKey(p, u) # CacheKey(q, u)
  /\ \A k \in DOMAIN _data : k = CacheKey(_data[k].val.fetcher, _data[k].val.username)
  /\ \A t \in Threads :
       (req[t].pc = "done" /\ req[t].resp.status = 200)
         => (req[t].resp.body.fetcher = req[t].ep /\ req[t].resp.body.username = req[t].user)

\* one endpoint has cached a value for the username "cf", and a request to
\* another endpoint, for a username with ":" in it, has missed
C11_Witness ==
  \E t \in Threads : \E k \in DOMAIN _data :
    /\ req[t].pc = "fetch"
    /\ \E i \in DOMAIN req[t].user : req[t].user[i] = ":"
    /\ _data[k].val.fetcher # req[t].ep
    /\ _data[k].val.username = <<"c", "f">>

\* the timestamps of dq that check_rate_limit keeps at the instant clock: dq
\* without its longest prefix of timestamps at or before clock - RATE_PERIOD
KeptAt(dq, clock) ==
  SubSeq(dq,
         1 + Cardinality({i \in 1..Len(dq) : \A j \in 1..i : dq[j] <= clock - RATE_PERIOD}),
         Len(dq))

\* the check of thread t admits, or rejects, in this step
Admits(t) == check_rate_limit(t) /\ req'[t].pc = "get"
Rejects(t) == check_rate_limit(t) /\ req'[t].pc = "done"

\* C13: a check made with the clock reading now drops the old timestamps at
\* the front of the client's sequence, then admits and records now if and
\* only if fewer than RATE_LIMIT timestamps are left, and else rejects and
\* records nothing.  So a check that finds only timestamps of its own
\* instant is admitted exactly when there are fewer than RATE_LIMIT of them,
\* and a check that finds only timestamps a window old is admitted.
C13_AdmitIffRoom ==
  [][\A t \in Threads :
       check_rate_limit(t) =>
         LET before == _rate_buckets[req[t].ip]
             after == _rate_buckets'[req[t].ip]
             kept == KeptAt(before, req[t].now)
         IN /\ Admits(t) \/ Rejects(t)
            /\ Admits(t) <=> Len(kept) < RATE_LIMIT
            /\ Admits(t) => after = Append(kept, req[t].now)
            /\ Rejects(t) => after = kept /\ req'[t].resp.status = 429
            /\ (\A i \in 1..Len(before) : before[i] = req[t].now)
                 => (Admits(t) <=> Len(before) < RATE_LIMIT)
            /\ (\A i \in 1..Len(before) : before[i] <= req[t].now - RATE_PERIOD)
                 => (Admits(t) /\ after = <<req[t].now>>)]_vars

\* a client was admitted up to the limit and then rejected; a window later
\* its next request has been admitted, the sequence holding that one alone
C13_Witness ==
  \E t, u \in Threads :
    /\ req[t].pc = "done" /\ req[t].resp = TooManyRequests
    /\ req[u].pc = "get" /\ req[u].ip = req[t].ip
    /\ req[u].now >= req[t].now + RATE_PERIOD
    /\ _rate_buckets[req[u].ip] = <<req[u].now>>

\* C14: every client's recorded timestamps are in non-decreasing order,
\* front to back, whatever the interleaving of the checks.
C14_BucketOrdered ==
  \A ip \in Clients : \A i, j \in 1..Len(_rate_buckets[ip]) :
    i < j => _rate_buckets[ip][i] <= _rate_buckets[ip][j]

\* how many of the admissions logged in log lie in the interval (lo, hi]
RECURSIVE AdmittedIn(_, _, _)
AdmittedIn(log, lo, hi) ==
  IF DOMAIN log = {} THEN 0
  ELSE LET s == CHOOSE x \in DOMAIN log : TRUE
           rest == [x \in DOMAIN log \ {s} |-> log[x]]
       IN (IF lo < s /\ s <= hi THEN log[s] ELSE 0) + AdmittedIn(rest, lo, hi)

\* C35: for every client and every instant t, the admitted requests whose
\* recorded timestamps lie in (t - RATE_PERIOD, t] are never more than
\* RATE_LIMIT, whatever the interleaving of the client's checks.  An interval
\* that holds a timestamp is inside the one that ends at its last timestamp,
\* so the intervals that end at a recorded timestamp stand for all.
C35_WindowNeverOverLimit ==
  \A ip \in Clients : \A s \in DOMAIN admissions[ip] :
    AdmittedIn(admissions[ip], s - RATE_PERIOD, s) <= RATE_LIMIT

\* C36: the buckets are independent per client: a check for client A reads
\* and changes only A's bucket, and no other step changes a bucket; so the
\* admissions and rejections of client B are the same whatever A asks.
C36_BucketsIndependent ==
  [][/\ \A t \in Threads :
          check_rate_limit(t) =>
            /\ \A ip \in Clients \ {req[t].ip} : _rate_buckets'[ip] = _rate_buckets[ip]
            /\ req'[t].resp = TooManyRequests
                 <=> Len(KeptAt(_rate_buckets[req[t].ip], req[t].now)) >= RATE_LIMIT
     /\ \A ip \in Clients :
          _rate_buckets'[ip] # _rate_buckets[ip]
            => \E t \in Threads : check_rate_limit(t) /\ req[t].ip = ip]_vars

\* one client is rejected, its bucket full, while the other has just been
\* admitted to a bucket that holds its request alone
C36_Witness ==
  \E t, u \in Threads :
    /\ req[t].ip # req[u].ip
    /\ req[t].pc = "done" /\ req[t].resp = TooManyRequests
    /\ Len(_rate_buckets[req[t].ip]) = RATE_LIMIT
    /\ req[u].pc = "get" /\ req[u].now = req[t].now
    /\ _rate_buckets[req[u].ip] = <<req[u].now>>

\* C15: a check is never made to wait: it can be made as soon as the clock
\* was read; a rejected request is answered by that one step with status
\* 429 and a message that states RATE_LIMIT and RATE_PERIOD, and all that
\* is left to do for it is to send the answer.
C15_RejectedAtOnce ==
  \A t \in Threads :
    /\ req[t].pc = "rl" => ENABLED check_rate_limit(t)
    /\ (req[t].resp # JNull /\ req[t].resp.status # 200) =>
         /\ req[t].pc = "done"
         /\ req[t].resp.status = 429
         /\ \E i, j \in DOMAIN req[t].resp.detail :
              /\ i < j
              /\ req[t].resp.detail[i] = JInt(RATE_LIMIT)
              /\ req[t].resp.detail[j] = JInt(RATE_PERIOD)

\* a request was rejected while the client's sequence held RATE_LIMIT
\* timestamps of the window
C15_Witness ==
  \E t \in Threads :
    /\ req[t].pc = "done" /\ req[t].resp # JNull /\ req[t].resp.status = 429
    /\ Len(_rate_buckets[req[t].ip]) = RATE_LIMIT

\* C12: a clear always succeeds, empties the store and leaves every bucket
\* of the rate limiter as it was; an entry enters the store only by a set of
\* its key, and a get of a key without entry finds nothing: so after a
\* clear every get of a key misses until that key is set again.
C12_ClearEmpties ==
  [][/\ \A t \in Threads :
          EndpointClear(t) =>
            /\ _data' = EmptyMap
            /\ _rate_buckets' = _rate_buckets
            /\ req'[t].resp = Ok(JDict("cache" :> JStr("cleared")))
     /\ \A k \in DOMAIN _data' \ DOMAIN _data :
          \E t \in Threads : EndpointSet(t) /\ req[t].key = k
     /\ \A t \in Threads :
          (EndpointGet(t) /\ req[t].key \notin DOMAIN _data) => req'[t].pc = "fetch"]_vars

\* a clear has removed an entry, the rate limiter holding timestamps, and a
\* request that came later has missed
C12_Witness ==
  \E t, u \in Threads :
    /\ req[t].pc = "done" /\ req[t].ep = <<"clear">> /\ req[t].found > 0
    /\ req[u].pc = "fetch" /\ req[u].now > req[t].now
    /\ _rate_buckets[req[u].ip] # <<>>

\* C16: a request reaches the cache only after its check has admitted it: a
\* request not yet checked, and a rejected one, has made no get, no set and
\* no fetch.
C16_AdmissionFirst ==
  \A t \in Threads :
    (req[t].pc = "rl" \/ (req[t].resp # JNull /\ req[t].resp.status = 429))
      => (req[t].gets = 0 /\ req[t].sets = 0 /\ req[t].fetches = 0)

\* a request was rejected while the store holds an entry under its key
C16_Witness ==
  \E t \in Threads :
    /\ req[t].pc = "done" /\ req[t].resp = TooManyRequests
    /\ CacheKey(req[t].ep, req[t].user) \in DOMAIN _data

\* C18: what a strategy has opened (the browser, an HTTP session) is
\* released when the strategy is over, however it ended: nothing is held
\* open when the next strategy starts, nor when the call has returned.
C18_ReleasedBetweenStrategies ==
  /\ (pc \in {"s2", "s3", "s4", "s5", "s6", "final"} /\ step = 1) => held = {}
  /\ pc = "done" => held = {}

(***************************************************************************)
(* Properties of the unified endpoint                                      *)
(***************************************************************************)
\* the platform aliases and the source each stands for
AliasTable ==
  [leetcode |-> <<"l", "c", ":">>, lc |-> <<"l", "c", ":">>,
   codechef |-> <<"c", "c", ":">>, cc |-> <<"c", "c", ":">>,
   duolingo |-> <<"d", "u", "o", ":">>, duo |-> <<"d", "u", "o", ":">>,
   codeforces |-> <<"c", "f", ":">>, cf |-> <<"c", "f", ":">>,
   hackerrank |-> <<"h", "r", ":">>, hr |-> <<"h", "r", ":">>]

\* a platform name that is an alias but for the case of its letters
Known(pf) == \E a \in DOMAIN AliasTable : Lower(Chars(pf)) = Chars(a)
SourceOf(pf) == AliasTable[CHOOSE a \in DOMAIN AliasTable : Lower(Chars(pf)) = Chars(a)]

\* where a request to a source endpoint stands when its handler starts
Dedicated(source, r) ==
  Entered([NoRequest EXCEPT !.pc = "rl", !.ep = source, !.ip = r.ip, !.user = r.user, !.now = r.now])

\* C29: a request to the unified endpoint under an alias of a source, in
\* whatever case, goes on exactly as a request to the endpoint of that
\* source for the same username: same handler, same cache key, the cache as
\* it was; it is answered with what the fetcher of that source produced for
\* that username, and every cache entry sits under the key of the source
\* and username it was fetched for.
C29_SameAsDedicated ==
  [][\A t \in Threads :
       /\ (req[t].pc = "route" /\ Known(req[t].platform) /\ req'[t] # req[t]) =>
            /\ [req'[t] EXCEPT !.platform = ""] = Dedicated(SourceOf(req[t].platform), req[t])
            /\ _data' = _data
       /\ (req'[t].pc = "done" /\ req'[t].platform # "" /\ req'[t].resp.status = 200) =>
            /\ req'[t].key = CacheKey(SourceOf(req'[t].platform), req'[t].user)
            /\ req'[t].resp.body.fetcher = SourceOf(req'[t].platform)
            /\ req'[t].resp.body.username = req'[t].user
       /\ \A k \in DOMAIN _data' : k = CacheKey(_data'[k].val.fetcher, _data'[k].val.username)
    ]_vars

\* a request for platform "Cf" answered from the entry a request to the
\* Codeforces endpoint has cached
C29_Witness ==
  \E t \in Threads :
    /\ req[t].pc = "done"
    /\ req[t].platform = "Cf"
    /\ req[t].resp.status = 200
    /\ req[t].gets = 1
    /\ req[t].fetches = 0
    /\ req[t].resp.body.fetcher = <<"c", "f", ":">>

\* C30: a request to the unified endpoint whose platform is no alias, once
\* past the rate limiter, ends at once with 404 and the message "Unknown
\* platform.": no cache read, no cache write, no fetcher call, the cache as
\* it was.
C30_UnknownPlatform ==
  [][\A t \in Threads :
       /\ (req[t].pc = "route" /\ ~Known(req[t].platform) /\ req'[t] # req[t]) =>
            /\ req'[t] = [req[t] EXCEPT !.pc = "done",
                                        !.resp = [status |-> 404, detail |-> "Unknown platform."]]
            /\ req'[t].gets = 0 /\ req'[t].sets = 0 /\ req'[t].fetches = 0
            /\ _data' = _data
       /\ (req'[t].platform # "" /\ ~Known(req'[t].platform)) => req'[t].pc \in {"rl", "route", "done"}
    ]_vars

\* a request for platform "lcc" answered 404 while the cache holds an entry
C30_Witness ==
  \E t \in Threads :
    /\ req[t].pc = "done"
    /\ req[t].platform = "lcc"
    /\ req[t].resp.status = 404
    /\ DOMAIN _data # {}

\* the request of thread t came in by the unified endpoint
Unified(r) == r.platform # ""

\* C37: an admitted request to the unified endpoint records exactly one
\* admission timestamp for its client: its check records one, and no later
\* step of it records another, the source handler running without a second
\* check; a request with an unknown platform has its one admission recorded
\* before it is answered 404.
C37_OneAdmissionPerRequest ==
  [][\A t \in Threads :
       /\ (Unified(req[t]) /\ req[t].pc = "rl" /\ req'[t].pc = "route") =>
            /\ Len(_rate_buckets'[req[t].ip])
                 = Len(KeptAt(_rate_buckets[req[t].ip], req[t].now)) + 1
            /\ _rate_buckets'[req[t].ip][Len(_rate_buckets'[req[t].ip])] = req[t].now
       /\ (Unified(req[t]) /\ req[t].pc # "rl" /\ req'[t] # req[t]) =>
            _rate_buckets' = _rate_buckets
       /\ (Unified(req'[t]) /\ req'[t].pc = "done" /\ req'[t].resp.status = 404) =>
            /\ req[t].pc = "route"
            /\ _rate_buckets[req[t].ip][Len(_rate_buckets[req[t].ip])] = req[t].now
    ]_vars

\* a request for platform "gfg" answered 404 after it took the last
\* admission of the window
C37_Witness ==
  \E t \in Threads :
    /\ req[t].pc = "done"
    /\ req[t].platform = "gfg"
    /\ req[t].resp = NotFound
    /\ Len(_rate_buckets[req[t].ip]) = RATE_LIMIT
    /\ _rate_buckets[req[t].ip][RATE_LIMIT] = req[t].now

(***************************************************************************)
(* Properties of the store under several keys                              *)
(***************************************************************************)
\* the entry under key k is gone, or another one, after the step
Leaves(k) == k \notin DOMAIN _data' \/ _data'[k] # _data[k]

\* C34: an entry leaves the store only through a get of its own key after
\* its expiry, a set of its own key, or a clear: get and set of a key leave
\* the entries of every other key as they were, and the passing of time
\* removes nothing, so an expired entry whose key is not read stays.
C34_OnlyOwnKeyOrClear ==
  [][\A k \in DOMAIN _data :
       Leaves(k) =>
         \E t \in Threads :
           \/ EndpointGet(t) /\ req[t].key = k /\ Expired(now, _data[k].exp)
                /\ _data' = Del(_data, k)
           \/ EndpointSet(t) /\ req[t].key = k /\ k \in DOMAIN _data'
                /\ \A kk \in DOMAIN _data \ {k} : kk \in DOMAIN _data' /\ _data'[kk] = _data[kk]
           \/ EndpointClear(t)
    ]_vars

\* an entry has expired and is still in the store, after a get and a set of
\* another key were made past its expiry
C34_Witness ==
  \E k, kk \in DOMAIN _data :
    /\ k # kk
    /\ Expired(now, _data[k].exp)
    /\ _data[kk].exp = now + CACHE_TTL
    /\ \E t \in Threads : req[t].pc = "done" /\ req[t].key = kk /\ req[t].gets = 1 /\ req[t].sets = 1

====
